---- MODULE Spec2Model ----
(***************************************************************************)
(* Model of the route-decoration pipeline of unchained                     *)
(* (src/src/unchained/meta.py, src/src/unchained/signature.py) together    *)
(* with the injection transform it hands the handler to and the handlers   *)
(* and providers of the functional tests (src/tests/functional).           *)
(*                                                                         *)
(* Python objects whose identity matters (Depends markers, functools       *)
(* partials, installed wrappers) live on heaps indexed by allocation       *)
(* order.  Signatures are values: sequences of parameters that refer to    *)
(* marker objects by heap index.                                           *)
(***************************************************************************)
EXTENDS Integers, Sequences, FiniteSets, TLC

\* ------------------------------------------------------------------ bounds
MaxRegs == 2       \* decoration passes per run
MaxReqs == 2       \* requests served per run
MaxDepth == 4      \* levels of the generated dependency chain
MaxParams == 2     \* parameters of a signature whose derivation is studied alone

\* ------------------------------------------------------------------ values
\* h: the headers of a request as the client sent them (name :> value).
NoHeaders == <<>>
None == [t |-> "none", n |-> 0, s |-> "", h |-> NoHeaders]
ReqVal(rid, m) == [t |-> "req", n |-> rid, s |-> m, h |-> NoHeaders]
IntVal(i) == [t |-> "int", n |-> i, s |-> "", h |-> NoHeaders]
StrVal(x) == [t |-> "str", n |-> 0, s |-> x, h |-> NoHeaders]
AppVal == [t |-> "app", n |-> 0, s |-> "self", h |-> NoHeaders]
SettingsVal == [t |-> "settings", n |-> 0, s |-> "self.settings", h |-> NoHeaders]
StateVal == [t |-> "state", n |-> 0, s |-> "self.state", h |-> NoHeaders]
\* A marker object passed as self to its bound __call__.
MarkerVal(m) == [t |-> "marker", n |-> m, s |-> "", h |-> NoHeaders]
WithHeaders(request, headers) == [request EXCEPT !.h = headers]

Verbs == {"get", "post", "put", "patch", "delete"}

HttpMethod(verb) ==
    CASE verb = "get" -> "GET"
      [] verb = "post" -> "POST"
      [] verb = "put" -> "PUT"
      [] verb = "patch" -> "PATCH"
      [] verb = "delete" -> "DELETE"

\* References to callables: a plain function (by name), a partial (by heap
\* index) or the method f bound to the marker object at heap index self.
FnRef(f) == [k |-> "fn", f |-> f, id |-> 0]
MethodRef(f, self) == [k |-> "method", f |-> f, id |-> self]
PartialRef(p) == [k |-> "partial", f |-> "", id |-> p]

\* ------------------------------------------------------------- parameters
\* ann: the class of the raw annotation ("Request", "Settings", "App", "State",
\* "Plain") or "Annotated" for Annotated[T, marker]; marker: heap index of the
\* marker object (0 when not annotated).
Plain(name, ann) == [name |-> name, ann |-> ann, marker |-> 0]
Dep(name, m) == [name |-> name, ann |-> "Annotated", marker |-> m]
\* An annotated parameter with a default value in the signature.
DepDefault(name, m, default) ==
    [name |-> name, ann |-> "Annotated", marker |-> m, default |-> default]

is_annotated(p) == p.ann = "Annotated"
is_request(p) == p.ann = "Request"
is_settings(p) == p.ann = "Settings"
is_app(p) == p.ann = "App"
is_state(p) == p.ann = "State"
is_auto_depends(p) == is_request(p) \/ is_settings(p) \/ is_app(p) \/ is_state(p)

has_request_object(sig) ==
    \E i \in 1..Len(sig) :
        /\ ~is_annotated(sig[i])
        /\ is_request(sig[i]) /\ sig[i].name = "request"

\* The reserved names and types looked for in annotated parameters too.
has_default_dependencies_in_annotated(sig) ==
    \E i \in 1..Len(sig) :
        \/ is_request(sig[i]) \/ sig[i].name = "request"
        \/ is_settings(sig[i]) \/ sig[i].name = "settings"
        \/ is_app(sig[i]) \/ sig[i].name = "app"
        \/ is_state(sig[i]) \/ sig[i].name = "state"

has_default_dependencies(sig) ==
    \E i \in 1..Len(sig) :
        /\ ~is_annotated(sig[i])
        /\ \/ is_request(sig[i]) \/ sig[i].name = "request"
           \/ is_settings(sig[i]) \/ sig[i].name = "settings"
           \/ is_app(sig[i]) \/ sig[i].name = "app"
           \/ is_state(sig[i]) \/ sig[i].name = "state"

KeepWithoutDefault(p) == is_annotated(p) \/ ~is_auto_depends(p)
new_signature_without_default_dependencies(sig) == SelectSeq(sig, KeepWithoutDefault)

\* The test of the loop inverted.
KeepAnnotatedOnly(p) == is_annotated(p)

KeepNotAnnotated(p) == ~is_annotated(p)

\* The signature handed on with its annotated parameters.
signature_with_annotated(sig) == sig

new_signature_without_annotated(sig) == SelectSeq(sig, KeepNotAnnotated)

\* The names pre-seeded with None: the parameter must have both the reserved
\* name and the matching type.
DefaultNames(sig) ==
    {sig[i].name : i \in {j \in 1..Len(sig) :
        /\ ~is_annotated(sig[j])
        /\ \/ is_request(sig[j]) /\ sig[j].name = "request"
           \/ is_settings(sig[j]) /\ sig[j].name = "settings"
           \/ is_app(sig[j]) /\ sig[j].name = "app"
           \/ is_state(sig[j]) /\ sig[j].name = "state"}}
get_default_dependencies(sig) == [n \in DefaultNames(sig) |-> None]


\* f"level{level_num}"
LevelTag(level_num) == "level" \o ToString(level_num)

\* The Depends(...) objects written in the annotations below, in heap order.
\* A Header marker additionally carries param_name ("" for None), required
\* and, once set, annotation_type ("" while unset); _signature_param_name is
\* initialised to None and never assigned.
MarkerAlwaysCached(f, use_cache) ==
    [dep |-> FnRef(f), use_cache |-> TRUE, class |-> "Depends", param_name |-> "",
     required |-> FALSE, annotation_type |-> "", _signature_param_name |-> ""]

Marker(f, use_cache) ==
    [dep |-> FnRef(f), use_cache |-> use_cache, class |-> "Depends", param_name |-> "",
     required |-> FALSE, annotation_type |-> "", _signature_param_name |-> ""]

\* Header(param_name, required) written at heap index self: the dependency is
\* the marker's own bound __call__.
Header(self, param_name, required) ==
    [dep |-> MethodRef("Header_call", self), use_cache |-> TRUE, class |-> "Header",
     param_name |-> param_name, required |-> required, annotation_type |-> "",
     _signature_param_name |-> ""]

StaticMarkers ==
    << Marker("p_req", TRUE), Marker("p_mid", TRUE),                     \* 1 2
       Marker("p_req", TRUE), Marker("p_mid", TRUE), Marker("p_top", TRUE), \* 3 4 5
       Marker("p_req", TRUE), Marker("a_req", TRUE),                     \* 6 7
       Marker("a_slow", TRUE), Marker("p_req", TRUE),                    \* 8 9
       Marker("counter", TRUE), Marker("counter", TRUE),                 \* 10 11
       Marker("rcounter", TRUE), Marker("rcounter", TRUE),               \* 12 13
       Marker("acounter", TRUE), Marker("acounter", TRUE),               \* 14 15
       Marker("counter", TRUE), Marker("counter", FALSE),                \* 16 17
       Marker("acounter", TRUE), Marker("acounter", FALSE),              \* 18 19
       Marker("rcounter", TRUE), Marker("rcounter", FALSE),              \* 20 21
       Marker("gen_c", TRUE), Marker("gen_b", TRUE), Marker("gen_a", TRUE), \* 22 23 24
       Marker("gen_c", TRUE), Marker("gen_setup_err", TRUE),             \* 25 26
       Marker("gen_c", TRUE), Marker("gen_nest_err", TRUE),              \* 27 28
       Marker("gen_b", TRUE), Marker("gen_c", TRUE),                     \* 29 30
       Marker("gen_c", TRUE), Marker("gen_http_err", TRUE),              \* 31 32
       Marker("gen_td_err", TRUE), Marker("agen_b", TRUE),               \* 33 34
       Marker("agen_a", TRUE), Marker("agen_td_err", TRUE),              \* 35 36
       Header(37, "X-Required", TRUE), Header(38, "X-Optional", TRUE),   \* 37 38
       Header(39, "", TRUE),                                             \* 39
       Header(40, "", TRUE), Header(41, "", TRUE),                       \* 40 41
       Header(42, "", TRUE), Marker("header_dependency", TRUE),          \* 42 43
       Header(44, "", TRUE),                                             \* 44
       Marker("p_app", TRUE), Marker("ap_app", TRUE),                    \* 45 46
       Marker("c2_level2", TRUE), Marker("c2_level1", TRUE),             \* 47 48
       Marker("c3_level3", TRUE), Marker("c3_level2", TRUE),             \* 49 50
       Marker("c3_level1", TRUE),                                        \* 51
       Marker("ac2_level2", TRUE), Marker("ac2_level1", TRUE),           \* 52 53
       Marker("acounter", TRUE), Marker("counter", TRUE),                \* 54 55
       Marker("shared_base_dependency", TRUE),                           \* 56
       Marker("shared_base_dependency", TRUE),                           \* 57
       Marker("branch1_dependency", TRUE),                               \* 58
       Marker("branch2_dependency", TRUE) >>                             \* 59
    \o [k \in 1..MaxDepth |-> Marker(LevelTag(k), TRUE)]

\* Heap index of the last marker written out; the generated chain follows.
ChainBase == Len(StaticMarkers) - MaxDepth


\* -------------------------------------------------- functions of the program
\* The handlers and providers of the functional tests.  body says what the
\* function does when called:
\*   "method"     returns request.method (AttributeError when request is None)
\*   "pass"       returns the value of its last parameter
\*   "const"      returns its own tag
\*   "counter"    increments its module-level counter and returns it
\*   "raise"      raises RuntimeError;  "raise_http" raises HttpError(403)
\* A yield-based provider (isGen) runs setup, yields its value, and runs
\* teardown when the scope is left:
\*   setup "ok" | "raise" (ValueError before the try) |
\*         "raise_http" (HttpError(403) inside the try: its own finally runs)
\*   teardown "ok" | "raise" (ValueError raised by the finally block)
Fun(params, isAsync, body) ==
    [params |-> params, isAsync |-> isAsync, isGen |-> FALSE, body |-> body,
     setup |-> "none", teardown |-> "none"]
Gen(params, isAsync, body, setup, teardown) ==
    [params |-> params, isAsync |-> isAsync, isGen |-> TRUE, body |-> body,
     setup |-> setup, teardown |-> teardown]

\* tests/functional/dependencies/request: a provider that reads the request,
\* reached directly or through one or two intermediate providers; handlers
\* that declare the request themselves; an async route with a slow provider
\* resolved before the one that reads the request; a route without parameters.
RequestFns ==
    [ p_req |-> Fun(<<Plain("request", "Request")>>, FALSE, "method"),
      p_mid |-> Fun(<<Dep("v", 1)>>, FALSE, "pass"),
      p_top |-> Fun(<<Dep("v", 2)>>, FALSE, "pass"),
      a_req |-> Fun(<<Plain("request", "Request")>>, TRUE, "method"),
      a_slow |-> Fun(<<>>, TRUE, "const"),
      h_d1 |-> Fun(<<Dep("info", 3)>>, FALSE, "pass"),
      h_d2 |-> Fun(<<Dep("info", 4)>>, FALSE, "pass"),
      h_d3 |-> Fun(<<Dep("info", 5)>>, FALSE, "pass"),
      h_raw |-> Fun(<<Plain("request", "Request")>>, FALSE, "method"),
      ah_raw |-> Fun(<<Plain("request", "Request")>>, TRUE, "method"),
      h_both |-> Fun(<<Plain("request", "Request"), Dep("info", 6)>>, FALSE, "pass"),
      ah_both |-> Fun(<<Plain("request", "Request"), Dep("info", 7)>>, TRUE, "pass"),
      ah_conc |-> Fun(<<Dep("s", 8), Dep("info", 9)>>, TRUE, "pass"),
      ah_plain |-> Fun(<<>>, TRUE, "const") ]

\* tests/functional/dependencies/path_params: a route with a parameter the
\* router fills from the path, followed by a Depends parameter.
PathFns ==
    [ h_path |-> Fun(<<Plain("item_id", "Plain"), Dep("dep", 55)>>, FALSE, "pass") ]

\* tests/functional/dependencies/core: counter providers referenced twice,
\* with and without use_cache=False, also with a provider that takes the request.
CacheFns ==
    [ counter |-> Fun(<<>>, FALSE, "counter"),
      rcounter |-> Fun(<<Plain("request", "Request")>>, FALSE, "counter"),
      acounter |-> Fun(<<>>, TRUE, "counter"),
      h_cache |-> Fun(<<Dep("d1", 10), Dep("d2", 11)>>, FALSE, "pass"),
      h_rcache |-> Fun(<<Dep("d1", 12), Dep("d2", 13)>>, FALSE, "pass"),
      ah_cache |-> Fun(<<Dep("d1", 14), Dep("d2", 15)>>, TRUE, "pass"),
      h_nocache |-> Fun(<<Dep("d1", 16), Dep("d2", 17)>>, FALSE, "pass"),
      ah_nocache |-> Fun(<<Dep("d1", 18), Dep("d2", 19)>>, TRUE, "pass"),
      h_rnocache |-> Fun(<<Dep("d1", 20), Dep("d2", 21)>>, FALSE, "pass") ]

\* tests/functional/dependencies/yielded and nested_dependencies: yield-based
\* providers, nested, failing in setup or teardown, and routes that raise.
YieldFns ==
    [ gen_c |-> Gen(<<>>, FALSE, "const", "ok", "ok"),
      gen_b |-> Gen(<<Dep("dep_c", 22)>>, FALSE, "const", "ok", "ok"),
      gen_a |-> Gen(<<Dep("dep_b", 23)>>, FALSE, "const", "ok", "ok"),
      gen_setup_err |-> Gen(<<>>, FALSE, "const", "raise", "ok"),
      gen_nest_err |-> Gen(<<Dep("d", 27)>>, FALSE, "const", "raise", "ok"),
      gen_http_err |-> Gen(<<>>, FALSE, "const", "raise_http", "ok"),
      gen_td_err |-> Gen(<<>>, FALSE, "const", "ok", "raise"),
      agen_b |-> Gen(<<>>, TRUE, "const", "ok", "ok"),
      agen_a |-> Gen(<<Dep("b", 34)>>, TRUE, "const", "ok", "ok"),
      agen_td_err |-> Gen(<<>>, TRUE, "const", "ok", "raise"),
      h_deep |-> Fun(<<Dep("dep", 24)>>, FALSE, "pass"),
      h_sib_err |-> Fun(<<Dep("d1", 25), Dep("d2", 26)>>, FALSE, "pass"),
      h_nest_err |-> Fun(<<Dep("dep", 28)>>, FALSE, "pass"),
      h_raise |-> Fun(<<Dep("d", 29)>>, FALSE, "raise"),
      h_http |-> Fun(<<Dep("d", 30)>>, FALSE, "raise_http"),
      h_dep_http |-> Fun(<<Dep("d1", 31), Dep("d2", 32)>>, FALSE, "pass"),
      h_td_err |-> Fun(<<Dep("dep", 33)>>, FALSE, "pass"),
      ah_deep |-> Fun(<<Dep("dep", 35)>>, TRUE, "pass"),
      ah_td_err |-> Fun(<<Dep("dep", 36)>>, TRUE, "pass") ]

\* tests/functional/dependencies/header: routes with Header markers, with an
\* explicit or an inferred name, with a default in the signature, with two
\* headers, and a provider that takes the header for the route.  Header_call
\* is Header.__call__(self, request).
HeaderFns ==
    [ Header_call |-> Fun(<<Plain("self", "Self"), Plain("request", "Request")>>, FALSE, "header"),
      h_required |-> Fun(<<Dep("val", 37)>>, FALSE, "pass"),
      h_optional |-> Fun(<<DepDefault("val", 38, "default")>>, FALSE, "pass"),
      h_infer |-> Fun(<<Dep("x_api_key", 39)>>, FALSE, "pass"),
      h_multi |-> Fun(<<Dep("x_api_key", 40), Dep("x_client_id", 41)>>, FALSE, "pass"),
      header_dependency |-> Fun(<<Dep("x_api_key", 42)>>, FALSE, "pass"),
      h_hdep |-> Fun(<<Dep("header_value", 43)>>, FALSE, "pass"),
      ah_infer |-> Fun(<<Dep("x_api_key", 44)>>, TRUE, "pass") ]

\* tests/functional/dependencies/app: a parameter typed as the application
\* class and named injected_app, on the route itself or on its provider.
AppFns ==
    [ h_app |-> Fun(<<Plain("injected_app", "App")>>, FALSE, "pass"),
      ah_app |-> Fun(<<Plain("injected_app", "App")>>, TRUE, "pass"),
      p_app |-> Fun(<<Plain("injected_app", "App")>>, FALSE, "pass"),
      ap_app |-> Fun(<<Plain("injected_app", "App")>>, TRUE, "pass"),
      h_app_dep |-> Fun(<<Dep("data", 45)>>, FALSE, "pass"),
      ah_app_dep |-> Fun(<<Dep("data", 46)>>, TRUE, "pass") ]

\* tests/functional/dependencies/nested_dependencies (multilevel): linear
\* chains level1 -> ... -> levelN built for a depth N; the deepest level
\* returns its tag, every other level prepends its tag to the value below.
ChainFns ==
    [ c2_level2 |-> Fun(<<>>, FALSE, "level"),
      c2_level1 |-> Fun(<<Dep("dep", 47)>>, FALSE, "level"),
      h_chain2 |-> Fun(<<Dep("result", 48)>>, FALSE, "pass"),
      c3_level3 |-> Fun(<<>>, FALSE, "level"),
      c3_level2 |-> Fun(<<Dep("dep", 49)>>, FALSE, "level"),
      c3_level1 |-> Fun(<<Dep("dep", 50)>>, FALSE, "level"),
      h_chain3 |-> Fun(<<Dep("result", 51)>>, FALSE, "pass"),
      ac2_level2 |-> Fun(<<>>, TRUE, "level"),
      ac2_level1 |-> Fun(<<Dep("dep", 52)>>, TRUE, "level"),
      ah_chain2 |-> Fun(<<Dep("result", 53)>>, TRUE, "pass") ]

\* level_num of a chain function.
ChainLevel ==
    [ c2_level2 |-> 2, c2_level1 |-> 1, c3_level3 |-> 3, c3_level2 |-> 2,
      c3_level1 |-> 1, ac2_level2 |-> 2, ac2_level1 |-> 1 ]
    @@ [f \in {LevelTag(k) : k \in 1..MaxDepth} |->
           CHOOSE k \in 1..MaxDepth : LevelTag(k) = f]

\* tests/functional/dependencies/core: the sync route that names an async
\* provider.
MixedFns ==
    [ h_sync_async |-> Fun(<<Dep("val", 54)>>, FALSE, "pass") ]

\* tests/functional/dependencies/nested_dependencies (multilevel): several
\* paths to the same provider.  Each branch holds its own reference to it.
BranchFns ==
    [ shared_base_dependency |-> Fun(<<>>, FALSE, "const"),
      branch1_dependency |-> Fun(<<Dep("base", 56)>>, FALSE, "branch"),
      branch2_dependency |-> Fun(<<Dep("base", 57)>>, FALSE, "branch"),
      branched_route |-> Fun(<<Dep("branch1", 58), Dep("branch2", 59)>>, FALSE, "pass") ]

\* f"branch1_{base}", f"branch2_{base}"
BranchTag == [ branch1_dependency |-> "branch1", branch2_dependency |-> "branch2" ]

\* create_dependency_chain(depth) for depth = MaxDepth: level1 .. levelN and
\* the route that depends on level1; level k is referenced through the marker
\* at heap index ChainBase + k.
create_dependency_chain(depth) ==
    [f \in {LevelTag(k) : k \in 1..depth} |->
        LET level == CHOOSE k \in 1..depth : LevelTag(k) = f
        IN IF level = depth THEN Fun(<<>>, FALSE, "level")
           ELSE Fun(<<Dep("dep", ChainBase + level + 1)>>, FALSE, "level")]
    @@ [ route_depth |-> Fun(<<Dep("result", ChainBase + 1)>>, FALSE, "pass") ]

FnTable ==
    RequestFns @@ CacheFns @@ YieldFns @@ HeaderFns @@ AppFns @@ ChainFns @@ MixedFns
    @@ PathFns @@ BranchFns @@ create_dependency_chain(MaxDepth)

Handlers ==
    {"h_d1", "h_d2", "h_d3", "h_raw", "ah_raw", "h_both", "ah_both", "ah_conc",
     "h_cache", "h_rcache", "ah_cache", "h_nocache", "ah_nocache", "h_rnocache",
     "h_deep", "h_sib_err", "h_nest_err", "h_raise", "h_http", "h_dep_http",
     "h_td_err", "ah_deep", "ah_td_err",
     "h_required", "h_optional", "h_infer", "h_multi", "h_hdep", "ah_infer",
     "h_app", "ah_app", "h_app_dep", "ah_app_dep",
     "h_chain2", "h_chain3", "ah_chain2", "h_sync_async", "ah_plain",
     "h_path", "branched_route", "route_depth"}
Counters == {"counter", "rcounter", "acounter"}

\* One application per run: the set of handlers it registers.
Apps == {{h} : h \in Handlers}


\* ------------------------------------------------------------------- state
VARIABLES
    app,        \* the handlers this application registers
    markers,    \* heap of Depends objects: [dep, use_cache]
    partials,   \* heap of functools.partial objects: [func, keywords, sig]
    funcSig,    \* __signature__ attribute of each plain function object
    registry,   \* per verb: the _with_request_dependency list of its method factory
    views,      \* the wrappers installed in the router, in registration order
    counters,   \* module-level counters of the counter providers
    inflight,   \* async requests that are suspended
    finished,   \* requests that have been answered
    nregs,      \* decoration passes so far
    nreqs,      \* requests started so far
    query_call, \* one call of a custom-field marker: [self, query_params, result]
                \* (for a header marker: headers, for a body marker: body)
    walk,       \* one graph walk taken a loop iteration at a time: [pc, stack, visited, coll]
    derived,    \* one operation on a signature: [op, source, result]
    background  \* the task registry, the BackgroundTask markers, their requests and events

vars == <<app, markers, partials, funcSig, registry, views, counters,
          inflight, finished, nregs, nreqs, query_call, walk, derived, background>>

\* ------------------------------------------------------- callables on heaps
\* H is any record with fields markers, partials, funcSig.
RECURSIVE Underlying(_, _)
Underlying(ref, H) ==
    IF ref.k = "partial" THEN Underlying(H.partials[ref.id].func, H) ELSE ref.f

\* Keywords a call of ref passes on: those of inner partials, overridden by outer.
RECURSIVE EffectiveKeywords(_, _)
EffectiveKeywords(ref, H) ==
    IF ref.k # "partial" THEN <<>>
    ELSE H.partials[ref.id].keywords @@ EffectiveKeywords(H.partials[ref.id].func, H)

\* inspect.signature: an explicit __signature__ wins over the annotations.
SignatureFromCallable(ref, H) ==
    IF ref.k = "partial" THEN H.partials[ref.id].sig
    ELSE IF ref.k = "method" THEN Tail(FnTable[ref.f].params)
    ELSE IF H.funcSig[ref.f].set THEN H.funcSig[ref.f].sig
    ELSE FnTable[ref.f].params

SetSignature(ref, sig, H) ==
    IF ref.k = "partial" THEN [H EXCEPT !.partials[ref.id].sig = sig]
    ELSE [H EXCEPT !.funcSig[ref.f] = [set |-> TRUE, sig |-> sig]]

\* ---------------------------------------------------------------- deepcopy
\* copy.deepcopy of a signature: marker objects are copied (once each, by the
\* memo), partials they hold are copied with their keywords and rewritten
\* signature, plain functions are shared.  S is the heaps plus the memo.
RECURSIVE CopySigFrom(_, _, _, _), CopyMarker(_, _), CopyPartial(_, _)

\* r: the copy of the marker of parameter i.
CopySigNext(sig, i, acc, r) ==
    CopySigFrom(sig, i + 1, Append(acc, [sig[i] EXCEPT !.marker = r.id]), r.S)

CopySigFrom(sig, i, acc, S) ==
    IF i > Len(sig) THEN [sig |-> acc, S |-> S]
    ELSE IF sig[i].marker = 0 THEN CopySigFrom(sig, i + 1, Append(acc, sig[i]), S)
    ELSE CopySigNext(sig, i, acc, CopyMarker(sig[i].marker, S))

\* r: the copy of the partial the marker holds.
MarkerPartialCopied(new, r) ==
    [id |-> new, S |-> [r.S EXCEPT !.markers[new].dep = PartialRef(r.id)]]

\* r: the copy of the object the bound method is bound to.
MarkerMethodCopied(new, f, r) ==
    [id |-> new, S |-> [r.S EXCEPT !.markers[new].dep = MethodRef(f, r.id)]]

\* S1: the heaps with the new marker object allocated and memoised.
MarkerCopied(m, new, S1) ==
    IF S1.markers[m].dep.k = "fn" THEN [id |-> new, S |-> S1]
    ELSE IF S1.markers[m].dep.k = "method"
    THEN MarkerMethodCopied(new, S1.markers[m].dep.f,
                            CopyMarker(S1.markers[m].dep.id, S1))
    ELSE MarkerPartialCopied(new, CopyPartial(S1.markers[m].dep.id, S1))

CopyMarker(m, S) ==
    IF m \in DOMAIN S.memoM THEN [id |-> S.memoM[m], S |-> S]
    ELSE MarkerCopied(m, Len(S.markers) + 1,
             [S EXCEPT !.markers = Append(@, S.markers[m]),
                       !.memoM = (m :> (Len(S.markers) + 1)) @@ @])

PartialSigCopied(new, rs) ==
    [id |-> new, S |-> [rs.S EXCEPT !.partials[new].sig = rs.sig]]

PartialFuncCopied(new, rf) ==
    [rf.S EXCEPT !.partials[new].func = PartialRef(rf.id)]

PartialMethodCopied(new, f, r) ==
    [r.S EXCEPT !.partials[new].func = MethodRef(f, r.id)]

\* S1: the heaps with the new partial object allocated and memoised.
PartialCopied(old, new, S1) ==
    PartialSigCopied(new,
        CopySigFrom(old.sig, 1, <<>>,
            IF old.func.k = "fn" THEN S1
            ELSE IF old.func.k = "method"
            THEN PartialMethodCopied(new, old.func.f, CopyMarker(old.func.id, S1))
            ELSE PartialFuncCopied(new, CopyPartial(old.func.id, S1))))

CopyPartial(p, S) ==
    IF p \in DOMAIN S.memoP THEN [id |-> S.memoP[p], S |-> S]
    ELSE PartialCopied(S.partials[p], Len(S.partials) + 1,
             [S EXCEPT !.partials = Append(@, S.partials[p]),
                       !.memoP = (p :> (Len(S.partials) + 1)) @@ @])

\* r: the copied signature with the heaps it was copied into.
Copied(H, r) ==
    [sig |-> r.sig,
     H |-> [H EXCEPT !.markers = r.S.markers, !.partials = r.S.partials]]

deepcopy(sig, H) ==
    Copied(H, CopySigFrom(sig, 1, <<>>,
                  [markers |-> H.markers, partials |-> H.partials,
                   memoM |-> <<>>, memoP |-> <<>>]))

\* -------------------------------------------------------- SignatureUpdater
is_depends(p) == is_annotated(p)

\* W is the heaps plus coll, the updater's partialised_dependencies.
RECURSIVE update_deep_dependencies(_, _), WalkSignature(_, _, _)

\* The marker's dependency replaced by a partial pre-seeded with None, its
\* visible signature stripped, and the marker recorded.
Partialised(m, signature, W) ==
    [W EXCEPT !.partials =
                  Append(@, [func |-> W.markers[m].dep,
                             keywords |-> get_default_dependencies(signature),
                             sig |-> new_signature_without_default_dependencies(signature)]),
              !.markers[m].dep = PartialRef(Len(W.partials) + 1),
              !.coll = Append(@, m)]

\* signature: the signature of the dependency before it is partialised; the
\* recursion runs over this original signature.
UpdateWith(m, signature, W) ==
    WalkSignature(signature, 1,
        IF DOMAIN get_default_dependencies(signature) # {}
        THEN Partialised(m, signature, W) ELSE W)

\* The walk reading the provider's own parameters, not the rewritten signature.
update_reading_original(m, W) ==
    UpdateWith(m, FnTable[Underlying(W.markers[m].dep, W)].params, W)

update_deep_dependencies(m, W) ==
    UpdateWith(m, SignatureFromCallable(W.markers[m].dep, W), W)

WalkSignature(sig, i, W) ==
    IF i > Len(sig) THEN W
    ELSE IF is_depends(sig[i])
         THEN WalkSignature(sig, i + 1, update_deep_dependencies(sig[i].marker, W))
         ELSE WalkSignature(sig, i + 1, W)


\* ----------------------------------------------------- injection transform
\* inject(api_func) builds the call model once, at decoration time: one node
\* per Depends reference, children before the node that consumes them.  A node
\* keeps the callable its marker held at that moment.  first is the index of
\* the first node of the subtree; kids name the parameter each child feeds.
RECURSIVE BuildCallModel(_, _, _, _), BuildKids(_, _, _, _, _)

\* r: the plan with the subtrees of the callable's dependencies, and its kids.
NodeBuilt(ref, use_cache, H, first, r) ==
    Append(r.plan, [call |-> ref, fn |-> Underlying(ref, H),
                    use_cache |-> use_cache, first |-> first, kids |-> r.kids])

BuildCallModel(ref, use_cache, H, plan) ==
    NodeBuilt(ref, use_cache, H, Len(plan) + 1,
              BuildKids(SignatureFromCallable(ref, H), 1, H, plan, <<>>))

\* plan1: the plan with the subtree of parameter i appended.
KidBuilt(sig, i, H, kids, plan1) ==
    BuildKids(sig, i + 1, H, plan1,
              Append(kids, [name |-> sig[i].name, idx |-> Len(plan1)]))

BuildKids(sig, i, H, plan, kids) ==
    IF i > Len(sig) THEN [plan |-> plan, kids |-> kids]
    ELSE IF ~is_depends(sig[i]) THEN BuildKids(sig, i + 1, H, plan, kids)
    ELSE KidBuilt(sig, i, H, kids,
                  BuildCallModel(H.markers[sig[i].marker].dep,
                                 H.markers[sig[i].marker].use_cache, H, plan))

inject(api_func, H) == BuildCallModel(api_func, TRUE, H, <<>>)

\* A synchronous function whose call model holds an async dependency is
\* refused when the call model is built.
DesignErrorIgnored(plan) == FALSE

DesignError(plan) ==
    /\ ~FnTable[plan[Len(plan)].fn].isAsync
    /\ \E n \in 1..Len(plan) : FnTable[plan[n].fn].isAsync

\* ------------------------------------------------------ decoration (wrapper)
Heap == [markers |-> markers, partials |-> partials, funcSig |-> funcSig]

\* input: the callable handed to the decorator, a plain function or a wrapper
\* returned by an earlier pass (which carries _original_api_func).
Unwrap(input) ==
    IF input.k = "view" THEN views[input.id]._original_api_func ELSE FnRef(input.f)

\* Auto-dependency stripping: wrap the handler in a partial pre-seeded with
\* None and continue with the signature without those parameters.
StripDefaults(api_func0, sig0, H0) ==
    IF has_default_dependencies(sig0)
    THEN LET new == Len(H0.partials) + 1
             stripped == new_signature_without_default_dependencies(sig0)
             part == [func |-> api_func0,
                      keywords |-> get_default_dependencies(sig0),
                      sig |-> stripped]
         IN [api_func |-> PartialRef(new), sig |-> stripped,
             H |-> [H0 EXCEPT !.partials = Append(@, part)]]
    ELSE [api_func |-> api_func0, sig |-> sig0, H |-> H0]

\* The type written in Annotated[T, marker]; the header routes declare str.
DeclaredType(p) == "str"

\* A custom-field marker of a handler parameter is given the name of the
\* parameter and its declared type.
Classified(p, W) ==
    IF W.markers[p.marker].class = "Header"
    THEN [W EXCEPT !.markers[p.marker].param_name = p.name,
                   !.markers[p.marker].annotation_type = DeclaredType(p)]
    ELSE W

RECURSIVE WalkParams(_, _, _)
WalkParams(sig, i, W) ==
    IF i > Len(sig) THEN W
    ELSE IF is_annotated(sig[i])
         THEN WalkParams(sig, i + 1,
                  update_deep_dependencies(sig[i].marker, Classified(sig[i], W)))
         ELSE WalkParams(sig, i + 1, W)

\* The graph walk over the handler's annotated parameters.
WalkHandler(sig, H) ==
    WalkParams(sig, 1,
        [markers |-> H.markers, partials |-> H.partials, funcSig |-> H.funcSig,
         coll |-> <<>>])

\* What the back-reference of the installed wrapper points at.
OriginalApiFunc(api_func0, api_func) == api_func

\* The test applied to the callable itself, partial applications not unwrapped.
iscoroutinefunction_of_object(api_func, H) ==
    api_func.k = "fn" /\ FnTable[api_func.f].isAsync

\* asyncio.iscoroutinefunction(api_func): partial applications are unwrapped.
iscoroutinefunction(api_func, H) == FnTable[Underlying(api_func, H)].isAsync

HeapOf(W) == [markers |-> W.markers, partials |-> W.partials, funcSig |-> W.funcSig]

\* The wrapper as it would be were the public signature derived in place: the
\* signature it keeps for its calls is the derived one.
DecorateInjectedInPlace(verb, input, api_func, api_func_signature, _original_signature, W, plan) ==
    [H |-> SetSignature(api_func, _original_signature, HeapOf(W)),
     coll |-> W.coll,
     raised |-> FALSE,
     view |-> [verb |-> verb,
               handler |-> Underlying(api_func, W),
               api_func |-> api_func,
               api_func_signature |-> new_signature_without_annotated(api_func_signature),
               original_signature |-> _original_signature,
               plan |-> plan,
               isAsync |-> iscoroutinefunction(api_func, W),
               public_sig |-> new_signature_without_annotated(api_func_signature),
               input |-> input,
               bindings |-> W.coll,
               _original_api_func |-> OriginalApiFunc(Unwrap(input), api_func)]]

\* plan: the call model inject built.  The wrapper is returned with its public
\* signature and back-reference, and the handler gets the deep-copied
\* signature back.
DecorateInjected(verb, input, api_func, api_func_signature, _original_signature, W, plan) ==
    [H |-> SetSignature(api_func, _original_signature, HeapOf(W)),
     coll |-> W.coll,
     raised |-> FALSE,
     view |-> [verb |-> verb,
               handler |-> Underlying(api_func, W),
               api_func |-> api_func,
               api_func_signature |-> api_func_signature,
               original_signature |-> _original_signature,
               plan |-> plan,
               isAsync |-> iscoroutinefunction(api_func, W),
               public_sig |-> new_signature_without_annotated(api_func_signature),
               input |-> input,
               bindings |-> W.coll,
               _original_api_func |-> OriginalApiFunc(Unwrap(input), api_func)]]

\* inject raised: the walk's effects on the markers and on the factory's list
\* stay, no wrapper is returned and no signature is restored.
DecorateRaised(W) ==
    [H |-> HeapOf(W), coll |-> W.coll, raised |-> TRUE, view |-> <<>>]

DecoratePlanned(verb, input, api_func, api_func_signature, _original_signature, W, plan) ==
    IF DesignError(plan) THEN DecorateRaised(W)
    ELSE DecorateInjected(verb, input, api_func, api_func_signature,
                          _original_signature, W, plan)

\* W: the heaps after the graph walk, with the bindings it collected.
DecorateWalked(verb, input, api_func, api_func_signature, _original_signature, W) ==
    DecoratePlanned(verb, input, api_func, api_func_signature, _original_signature,
                    W, inject(api_func, W))

\* cp: the deep copy of the signature, taken before the walk rewrites markers.
DecorateCopied(verb, input, api_func, api_func_signature, cp) ==
    DecorateWalked(verb, input, api_func, api_func_signature, cp.sig,
                   WalkHandler(api_func_signature, cp.H))

\* st: the handler after auto-dependency stripping.
DecorateStripped(verb, input, st) ==
    DecorateCopied(verb, input, st.api_func, st.sig, deepcopy(st.sig, st.H))

Decorated(verb, input) ==
    DecorateStripped(verb, input,
        StripDefaults(Unwrap(input), SignatureFromCallable(Unwrap(input), Heap), Heap))

\* d: the result of the decoration pass; the factory's list is extended and
\* the wrapper is installed.
Install(verb, d) ==
    /\ markers' = d.H.markers
    /\ partials' = d.H.partials
    /\ funcSig' = d.H.funcSig
    /\ registry' = [registry EXCEPT ![verb] = @ \o d.coll]
    /\ views' = IF d.raised THEN views ELSE Append(views, d.view)

Decorate(verb, input) ==
    /\ nregs < MaxRegs
    /\ Install(verb, Decorated(verb, input))
    /\ nregs' = nregs + 1
    /\ UNCHANGED <<app, counters, inflight, finished, nreqs, query_call, walk, derived, background>>

\* app.<verb>(path)(handler) on a handler function of the application.
Register(verb, h) == h \in app /\ Decorate(verb, [k |-> "fn", f |-> h, id |-> 0])

\* app.<verb>(path)(wrapper) on a wrapper an earlier pass returned.
Redecorate(verb, v) == v \in 1..Len(views) /\ Decorate(verb, [k |-> "view", f |-> "", id |-> v])


\* ------------------------------------------------------------ call time
\* _prepare_execution: write the real values into every partial the factory's
\* _with_request_dependency list reaches, then into the handler's own partial.
FillKeywords(kw, request) ==
    [n \in DOMAIN kw |->
        CASE n = "request" -> request
          [] n = "settings" -> SettingsVal
          [] n = "app" -> AppVal
          [] n = "state" -> StateVal
          [] OTHER -> kw[n]]

FillHandlerKeywords(kw) ==
    [n \in DOMAIN kw |->
        CASE n = "settings" -> SettingsVal
          [] n = "app" -> AppVal
          [] n = "state" -> StateVal
          [] OTHER -> kw[n]]

RECURSIVE FillRegistry(_, _, _, _)
FillRegistry(deps, i, request, parts) ==
    IF i > Len(deps) THEN parts
    ELSE LET d == markers[deps[i]].dep
         IN FillRegistry(deps, i + 1, request,
                IF d.k = "partial"
                THEN [parts EXCEPT ![d.id].keywords = FillKeywords(@, request)]
                ELSE parts)

\* The router passes the request first; it is forwarded to the handler only
\* when the handler's (stripped) signature still declares a request parameter.
ForwardedKeepsRequest(sig, func_args) == func_args

ForwardedArgs(sig, func_args) ==
    IF has_request_object(sig) THEN func_args ELSE Tail(func_args)

\* The bindings this call rewrites: the list of the verb's method factory.
BindingsOf(v) == registry[views[v].verb]

\* parts: the partials after the list of the factory has been written.
FillHandler(api_func, parts) ==
    IF api_func.k = "partial"
    THEN [parts EXCEPT ![api_func.id].keywords = FillHandlerKeywords(@)]
    ELSE parts

\* H1: the heaps after api_func.__signature__ has been set back to the
\* stripped signature.
PrepareView(v, view, request, H1) ==
    [partials |-> FillHandler(view.api_func,
                      FillRegistry(BindingsOf(v), 1, request, H1.partials)),
     funcSig |-> H1.funcSig,
     func_args |-> ForwardedArgs(view.api_func_signature, <<request>>)]

_prepare_execution(v, request) ==
    PrepareView(v, views[v], request,
                SetSignature(views[v].api_func, views[v].api_func_signature, Heap))

\* ------------------------------------------- the injected function, stepwise
Event(e, fn, obs, args, val) == [e |-> e, fn |-> fn, obs |-> obs, args |-> args, val |-> val]

\* The keyword arguments of the router: one value per parameter of the
\* signature it saw at registration, the request excepted.
RouterKeywords(public_sig) ==
    [n \in {public_sig[i].name : i \in 1..Len(public_sig)} \ {"request"} |-> StrVal("item")]

NewRun(v, rid, request, func_args) ==
    [view |-> v, rid |-> rid, req |-> request, posargs |-> func_args,
     kwargs |-> RouterKeywords(views[v].public_sig),
     idx |-> 1, cache |-> <<>>, vals |-> [i \in 1..Len(views[v].plan) |-> None],
     stack |-> <<>>, exc |-> "", pc |-> "run", result |-> None, log |-> <<>>]

Max(S) == CHOOSE x \in S : \A y \in S : y <= x

\* Whether a node stores and reuses its value within the request.
UsesCache(node) == node.use_cache

\* Nodes whose subtree starts at i and whose value is already cached.
CacheHits(rs, plan) ==
    {j \in rs.idx..Len(plan) :
        /\ plan[j].first = rs.idx
        /\ UsesCache(plan[j])
        /\ plan[j].call \in DOMAIN rs.cache}

\* The keywords a call of a node passes: those of the partial (read when the
\* call is made), overridden by the resolved dependencies.
KidIdx(node, name) ==
    node.kids[CHOOSE j \in 1..Len(node.kids) : node.kids[j].name = name].idx

CallKeywords(rs, node, parts) ==
    [k \in {node.kids[j].name : j \in 1..Len(node.kids)} |-> rs.vals[KidIdx(node, k)]]
    @@ EffectiveKeywords(node.call, [partials |-> parts])

ParamNames(params) == {params[j].name : j \in 1..Len(params)}

BadBinding(params, pos, kw) ==
    \/ Len(pos) > Len(params)
    \/ \E j \in 1..Len(pos) : j <= Len(params) /\ params[j].name \in DOMAIN kw
    \/ \E j \in (Len(pos) + 1)..Len(params) : params[j].name \notin DOMAIN kw
    \/ \E n \in DOMAIN kw : n \notin ParamNames(params)

BoundArgs(params, pos, kw) ==
    [j \in 1..Len(params) |-> IF j <= Len(pos) THEN pos[j] ELSE kw[params[j].name]]

TakesRequest(fn) ==
    \E j \in 1..Len(FnTable[fn].params) :
        FnTable[fn].params[j].name = "request" /\ is_request(FnTable[fn].params[j])

RequestArg(fn, args) ==
    IF TakesRequest(fn)
    THEN args[CHOOSE j \in 1..Len(args) : FnTable[fn].params[j].name = "request"]
    ELSE None

\* request.headers: the lookup ignores case and reads "_" as "-".
HeaderKey(name) ==
    CASE name \in {"X-Required", "x-required"} -> "x-required"
      [] name \in {"X-Optional", "x-optional"} -> "x-optional"
      [] name \in {"X-API-Key", "x-api-key", "x_api_key"} -> "x-api-key"
      [] name \in {"X-Client-ID", "x-client-id", "x_client_id"} -> "x-client-id"
      [] OTHER -> name

InHeaders(name, headers) == \E w \in DOMAIN headers : HeaderKey(w) = HeaderKey(name)

HeaderItem(name, headers) ==
    headers[CHOOSE w \in DOMAIN headers : HeaderKey(w) = HeaderKey(name)]

\* str(None) in the f-string of the error message.
NameText(name) == IF name = "" THEN "None" ELSE name

HeaderLookup(self, request, param_name, ctrs) ==
    IF param_name # "" /\ InHeaders(param_name, request.h)
    THEN IF self.annotation_type = ""
         THEN [exc |-> "AttributeError", val |-> None, ctrs |-> ctrs]
         ELSE [exc |-> "", val |-> StrVal(HeaderItem(param_name, request.h)), ctrs |-> ctrs]
    ELSE IF self.required
    THEN [exc |-> "ValidationError",
          val |-> StrVal("Missing header: " \o NameText(self.param_name)), ctrs |-> ctrs]
    ELSE [exc |-> "", val |-> None, ctrs |-> ctrs]

\* Header.__call__(self, request).
Header_call(self, request, ctrs) ==
    IF request.t # "req"
    THEN [exc |-> "AttributeError", val |-> None, ctrs |-> ctrs]
    ELSE HeaderLookup(self, request,
             IF self.param_name # "" THEN self.param_name ELSE self._signature_param_name,
             ctrs)

\* The body of a function: [exc, val, ctrs].
Body(fn, args, ctrs) ==
    LET F == FnTable[fn]
        request == RequestArg(fn, args)
    IN CASE F.body = "method" ->
               IF request.t = "req"
               THEN [exc |-> "", val |-> StrVal(request.s), ctrs |-> ctrs]
               ELSE [exc |-> "AttributeError", val |-> None, ctrs |-> ctrs]
         [] F.body = "pass" -> [exc |-> "", val |-> args[Len(args)], ctrs |-> ctrs]
         [] F.body = "const" -> [exc |-> "", val |-> StrVal(fn), ctrs |-> ctrs]
         [] F.body = "counter" ->
               [exc |-> "", val |-> IntVal(ctrs[fn] + 1),
                ctrs |-> [ctrs EXCEPT ![fn] = @ + 1]]
         [] F.body = "raise" -> [exc |-> "RuntimeError", val |-> None, ctrs |-> ctrs]
         [] F.body = "raise_http" -> [exc |-> "HttpError403", val |-> None, ctrs |-> ctrs]
         [] F.body = "header" -> Header_call(markers[args[1].n], request, ctrs)
         [] F.body = "branch" ->
               [exc |-> "", val |-> StrVal(BranchTag[fn] \o "_" \o args[1].s), ctrs |-> ctrs]
         [] F.body = "level" ->
               [exc |-> "",
                val |-> StrVal(IF args = <<>> THEN LevelTag(ChainLevel[fn])
                               ELSE LevelTag(ChainLevel[fn]) \o "_" \o args[1].s),
                ctrs |-> ctrs]

Fail(rs, exc, events) ==
    [rs EXCEPT !.exc = exc, !.pc = "unwind", !.log = @ \o events]

\* The node returned val: it is stored (and cached), and a yield-based
\* provider that has yielded is put on the exit stack.
Done(rs, node, val, events, push) ==
    [rs EXCEPT !.vals[rs.idx] = val,
               !.cache = IF UsesCache(node) THEN (node.call :> val) @@ @ ELSE @,
               !.idx = rs.idx + 1,
               !.stack = IF push THEN <<rs.idx>> \o @ ELSE @,
               !.log = @ \o events]

\* A yield-based provider below the root is entered as a scope: its setup
\* runs now.  b: the outcome of the code before its yield.
InvokeScope(rs, node, F, args, obs, b, ctrs) ==
    CASE F.setup = "raise" ->
             [rs |-> Fail(rs, "ValueError", <<Event("setup", node.fn, obs, args, None)>>),
              ctrs |-> ctrs]
      [] F.setup = "raise_http" ->
             [rs |-> Fail(rs, "HttpError403",
                          <<Event("setup", node.fn, obs, args, None),
                            Event("teardown", node.fn, None, <<>>, None)>>),
              ctrs |-> ctrs]
      [] OTHER ->
             [rs |-> Done(rs, node, b.val, <<Event("setup", node.fn, obs, args, b.val)>>, TRUE),
              ctrs |-> b.ctrs]

\* A plain provider, or the handler itself.  b: the outcome of its body.
InvokePlain(rs, node, kind, args, obs, b) ==
    IF b.exc # ""
    THEN [rs |-> Fail(rs, b.exc, <<Event(kind, node.fn, obs, args, b.val)>>),
          ctrs |-> b.ctrs]
    ELSE [rs |-> Done(rs, node, b.val, <<Event(kind, node.fn, obs, args, b.val)>>, FALSE),
          ctrs |-> b.ctrs]

\* args: the arguments the call binds to the parameters of the function.
InvokeBound(rs, node, F, isRoot, args, ctrs) ==
    IF F.isGen /\ ~isRoot
    THEN InvokeScope(rs, node, F, args, RequestArg(node.fn, args),
                     Body(node.fn, args, ctrs), ctrs)
    ELSE InvokePlain(rs, node, IF isRoot THEN "handler" ELSE IF F.isGen THEN "setup" ELSE "call",
                     args, RequestArg(node.fn, args), Body(node.fn, args, ctrs))

\* pos, kw: the positional and keyword arguments of the call.
InvokeWith(rs, node, F, isRoot, pos, kw, ctrs) ==
    IF BadBinding(F.params, pos, kw)
    THEN [rs |-> Fail(rs, "TypeError", <<>>), ctrs |-> ctrs]
    ELSE InvokeBound(rs, node, F, isRoot, BoundArgs(F.params, pos, kw), ctrs)

\* A bound method is called with the object it is bound to as self.
RECURSIVE BoundSelf(_, _)
BoundSelf(ref, parts) ==
    IF ref.k = "partial" THEN BoundSelf(parts[ref.id].func, parts)
    ELSE IF ref.k = "method" THEN <<MarkerVal(ref.id)>>
    ELSE <<>>

InvokeNode(rs, node, isRoot, parts, ctrs) ==
    InvokeWith(rs, node, FnTable[node.fn], isRoot,
               IF isRoot THEN rs.posargs ELSE BoundSelf(node.call, parts),
               CallKeywords(rs, node, parts) @@ (IF isRoot THEN rs.kwargs ELSE <<>>), ctrs)

\* Calling node rs.idx of the plan; only the root receives the positional
\* arguments of the wrapper.
Invoke(rs, plan, parts, ctrs) ==
    InvokeNode(rs, plan[rs.idx], rs.idx = Len(plan), parts, ctrs)

\* Leaving the scope: the entered providers are left last-entered first; an
\* exception raised by a teardown replaces the pending outcome.
ExitOrder(stack) == stack

UnwindNext(rs, order, fn) ==
    [rs EXCEPT !.stack = Tail(order),
               !.log = Append(@, Event("teardown", fn, None, <<>>, None)),
               !.exc = IF FnTable[fn].teardown = "raise" THEN "ValueError" ELSE @]

UnwindOrder(rs, plan, order) ==
    IF order = <<>> THEN [rs EXCEPT !.pc = "done"]
    ELSE UnwindNext(rs, order, plan[Head(order)].fn)

Unwind(rs, plan) == UnwindOrder(rs, plan, ExitOrder(rs.stack))

\* j: the outermost node of the subtree whose value is cached.
StepCached(rs, plan, j, ctrs) ==
    [rs |-> [rs EXCEPT !.vals[j] = rs.cache[plan[j].call], !.idx = j + 1],
     ctrs |-> ctrs, suspended |-> FALSE]

StepInvoked(r, suspended) == [rs |-> r.rs, ctrs |-> r.ctrs, suspended |-> suspended]

StepHits(rs, plan, parts, ctrs, hits) ==
    IF hits # {} THEN StepCached(rs, plan, Max(hits), ctrs)
    ELSE StepInvoked(Invoke(rs, plan, parts, ctrs), FnTable[plan[rs.idx].fn].isAsync)

Step(rs, plan, parts, ctrs) ==
    IF rs.pc = "unwind"
    THEN [rs |-> Unwind(rs, plan), ctrs |-> ctrs, suspended |-> FALSE]
    ELSE IF rs.idx > Len(plan)
    THEN [rs |-> [rs EXCEPT !.pc = "unwind", !.result = rs.vals[Len(plan)]],
          ctrs |-> ctrs, suspended |-> FALSE]
    ELSE StepHits(rs, plan, parts, ctrs, CacheHits(rs, plan))

\* Run until the request is answered or, in an async route, until an async
\* function has been called and the coroutine is suspended in it.
RECURSIVE RunSegment(_, _, _, _, _)
RunNext(r, plan, parts, stopAtAsync) ==
    IF stopAtAsync /\ r.suspended THEN [rs |-> r.rs, ctrs |-> r.ctrs]
    ELSE RunSegment(r.rs, plan, parts, r.ctrs, stopAtAsync)

RunSegment(rs, plan, parts, ctrs, stopAtAsync) ==
    IF rs.pc = "done" THEN [rs |-> rs, ctrs |-> ctrs]
    ELSE RunNext(Step(rs, plan, parts, ctrs), plan, parts, stopAtAsync)

\* What the wrapper hands back to the router: the outcome of the injected
\* call, unchanged (no try/except around it).
WrapperSwallows(rs) == [rs EXCEPT !.exc = ""]

WrapperOutcome(rs) == rs

\* The router's answer: 200 with the value, the HTTP error's own status, or 500.
Status(rs) ==
    IF rs.exc = "" THEN 200
    ELSE IF rs.exc = "HttpError403" THEN 403
    ELSE IF rs.exc = "ValidationError" THEN 422
    ELSE 500

Answer(rs) ==
    LET out == WrapperOutcome(rs)
    IN [view |-> out.view, rid |-> out.rid, req |-> out.req, log |-> out.log,
        posargs |-> out.posargs,
        exc |-> out.exc, status |-> Status(out),
        body |-> IF out.exc = "" THEN out.result ELSE None]

\* The answer view v gives to a request when served without interruption.
ServedRun(pe, r) ==
    [answer |-> Answer(r.rs), partials |-> pe.partials, funcSig |-> pe.funcSig,
     ctrs |-> r.ctrs]

ServePrepared(v, request, pe) ==
    ServedRun(pe, RunSegment(NewRun(v, request.n, request, pe.func_args),
                             views[v].plan, pe.partials, counters, FALSE))

Serve(v, request) == ServePrepared(v, request, _prepare_execution(v, request))

\* ------------------------------------------------------------------ requests
Answered(r) ==
    /\ partials' = r.partials
    /\ funcSig' = r.funcSig
    /\ counters' = r.ctrs
    /\ finished' = Append(finished, r.answer)

\* The headers the test client sends to a route.
RequestHeaders(h) ==
    CASE h = "h_required" ->
             {NoHeaders, "X-Required" :> "test-value", "x-required" :> "test-value"}
      [] h = "h_optional" -> {NoHeaders, "X-Optional" :> "provided"}
      [] h \in {"h_infer", "ah_infer"} -> {NoHeaders, "x-api-key" :> "secret"}
      [] h = "h_multi" ->
             {"x-client-id" :> "client", "x-api-key" :> "secret",
              ("x-api-key" :> "secret") @@ ("x-client-id" :> "client")}
      [] h = "h_hdep" -> {"X-API-Key" :> "secret"}
      [] OTHER -> {NoHeaders}

\* The request the router builds for call number rid of view v.
IncomingRequest(v, rid, headers) ==
    WithHeaders(ReqVal(rid, HttpMethod(views[v].verb)), headers)

\* The router calls the sync wrapper with the request as first argument.
decorated(v) ==
    /\ v \in 1..Len(views) /\ ~views[v].isAsync
    /\ nreqs < MaxReqs
    /\ \E headers \in RequestHeaders(views[v].handler) :
           Answered(Serve(v, IncomingRequest(v, nreqs + 1, headers)))
    /\ nreqs' = nreqs + 1
    /\ UNCHANGED <<app, markers, registry, views, inflight, nregs, query_call, walk, derived, background>>

Settle(rs, rest) ==
    IF rs.pc = "done"
    THEN /\ finished' = Append(finished, Answer(rs))
         /\ inflight' = rest
    ELSE /\ finished' = finished
         /\ inflight' = Append(rest, rs)

\* r: the coroutine at its first suspension (or its end).
Suspended(r, rest) ==
    /\ counters' = r.ctrs
    /\ Settle(r.rs, rest)

\* The injected coroutine started on the partials as they were before the
\* placeholders were written.
StartedBeforeWrites(v, request, pe) ==
    /\ partials' = pe.partials
    /\ funcSig' = pe.funcSig
    /\ Suspended(RunSegment(NewRun(v, request.n, request, pe.func_args),
                            views[v].plan, partials, counters, TRUE),
                 inflight)

\* pe: the result of _prepare_execution; the injected coroutine runs on the
\* written partials up to its first suspension.
Started(v, request, pe) ==
    /\ partials' = pe.partials
    /\ funcSig' = pe.funcSig
    /\ Suspended(RunSegment(NewRun(v, request.n, request, pe.func_args),
                            views[v].plan, pe.partials, counters, TRUE),
                 inflight)

AwaitRequest(v, request) == Started(v, request, _prepare_execution(v, request))

\* The router calls the async wrapper: the placeholders are written and the
\* injected coroutine runs up to its first suspension.
adecorated(v) ==
    /\ v \in 1..Len(views) /\ views[v].isAsync
    /\ nreqs < MaxReqs
    /\ \E headers \in RequestHeaders(views[v].handler) :
           AwaitRequest(v, IncomingRequest(v, nreqs + 1, headers))
    /\ nreqs' = nreqs + 1
    /\ UNCHANGED <<app, markers, registry, views, nregs, query_call, walk, derived, background>>

Without(seq, k) == [i \in 1..(Len(seq) - 1) |-> IF i < k THEN seq[i] ELSE seq[i + 1]]

\* The event loop resumes a suspended request up to its next suspension.
Resume(k) ==
    /\ k \in 1..Len(inflight)
    /\ Suspended(RunSegment(inflight[k], views[inflight[k].view].plan, partials, counters, TRUE),
                 Without(inflight, k))
    /\ UNCHANGED <<app, markers, partials, funcSig, registry, views, nregs, nreqs, query_call, walk, derived, background>>

\* ------------------------------------------------- query-parameter marker
\* The two sentinels: the module's `empty` object and inspect.Signature.empty.
empty == [t |-> "empty", n |-> 0, s |-> "", h |-> NoHeaders]
SignatureEmpty == [t |-> "Signature.empty", n |-> 0, s |-> "", h |-> NoHeaders]

\* QueryParams(param_name, required, default) after the walk has set
\* signature_param_name, annotation_type and default.
QueryParams(param_name, required, _default, signature_param_name, annotation_type, default) ==
    [param_name |-> param_name, required |-> required, _default |-> _default,
     signature_param_name |-> signature_param_name,
     annotation_type |-> annotation_type, default |-> default]

is_optional_annotation(annotation) == annotation \in {"Optional[str]", "Optional[int]"}

get_optional_annotation(annotation) ==
    CASE annotation = "Optional[str]" -> "str"
      [] annotation = "Optional[int]" -> "int"

\* typing.get_origin of the unwrapped annotation ("" for None).
get_origin(annotation) ==
    CASE annotation = "list[str]" -> "list"
      [] annotation = "Literal" -> "Literal"
      [] annotation = "dict[str, str]" -> "dict"
      [] OTHER -> ""

\* int(text): the decimal value or ValueError.
IntOf(text) ==
    CASE text = "50" -> [exc |-> "", val |-> IntVal(50)]
      [] text = "7" -> [exc |-> "", val |-> IntVal(7)]
      [] OTHER -> [exc |-> "ValueError",
                   val |-> StrVal("invalid literal for int() with base 10: '" \o text \o "'")]

\* query_params[param_name]: the last value of the key.
QueryItem(query_params, param_name) ==
    query_params[param_name][Len(query_params[param_name])]

\* Lines 43-60: the body of the try block, [exc, val].
Coerced(annotation_type, annotation_origin, query_params, param_name) ==
    CASE annotation_origin = "list" ->
             [exc |-> "", val |-> [t |-> "list", n |-> 0, s |-> "",
                                   h |-> query_params[param_name]]]
      [] annotation_origin = "Literal" ->
             [exc |-> "", val |-> StrVal(QueryItem(query_params, param_name))]
      [] annotation_origin # "" /\ annotation_origin \notin {"list", "Literal"} ->
             [exc |-> "ValueError",
              val |-> StrVal("Unsupported annotation type: " \o annotation_origin)]
      [] annotation_origin = "" /\ annotation_type = "int" ->
             IntOf(QueryItem(query_params, param_name))
      [] OTHER -> [exc |-> "", val |-> StrVal(QueryItem(query_params, param_name))]

\* The defaults consulted in the other order.
QueryDefaultsSignatureFirst(self, param_name) ==
    IF self.default # SignatureEmpty
    THEN [exc |-> "", val |-> self.default, loc |-> <<>>]
    ELSE IF self._default # empty
    THEN [exc |-> "", val |-> self._default, loc |-> <<>>]
    ELSE IF self.required
    THEN [exc |-> "ValidationError",
          val |-> StrVal("Missing query parameter: " \o NameText(param_name)), loc |-> <<>>]
    ELSE [exc |-> "", val |-> None, loc |-> <<>>]

\* Lines 67-76: the defaults, then the required check.
QueryDefaults(self, param_name) ==
    IF self._default # empty
    THEN [exc |-> "", val |-> self._default, loc |-> <<>>]
    ELSE IF self.default # SignatureEmpty
    THEN [exc |-> "", val |-> self.default, loc |-> <<>>]
    ELSE IF self.required
    THEN [exc |-> "ValidationError",
          val |-> StrVal("Missing query parameter: " \o NameText(param_name)), loc |-> <<>>]
    ELSE [exc |-> "", val |-> None, loc |-> <<>>]

\* Lines 61-65: an exception of the try block is swallowed for an optional
\* annotation and becomes a ValidationError otherwise.
QueryCoerced(self, param_name, c) ==
    IF c.exc = ""
    THEN [exc |-> "", val |-> c.val, loc |-> <<>>]
    ELSE IF is_optional_annotation(self.annotation_type)
    THEN QueryDefaults(self, param_name)
    ELSE [exc |-> "ValidationError", val |-> c.val, loc |-> <<"query", param_name>>]

\* annotation_type: the declared type with Optional unwrapped (lines 43-45).
QueryLookup(self, query_params, param_name, annotation_type) ==
    IF param_name # "" /\ param_name \in DOMAIN query_params
    THEN QueryCoerced(self, param_name,
             Coerced(annotation_type, get_origin(annotation_type), query_params, param_name))
    ELSE QueryDefaults(self, param_name)

\* QueryParams.__call__(self, request) on a request whose query string is
\* query_params, for a declared type that is not a pydantic model.
QueryParams_call(self, query_params) ==
    QueryLookup(self, query_params,
        IF self.param_name # "" THEN self.param_name ELSE self.signature_param_name,
        IF is_optional_annotation(self.annotation_type)
        THEN get_optional_annotation(self.annotation_type)
        ELSE self.annotation_type)

\* No call yet.
Pending == [exc |-> "pending", val |-> None, loc |-> <<>>]
NoQueryCall == [self |-> <<>>, query_params |-> <<>>, result |-> Pending]

AnnotationTypes == {"str", "int", "Optional[str]", "Optional[int]", "list[str]", "Literal", "dict[str, str]"}
QueryStrings ==
    {<<>>, "q" :> <<"hello">>, "q" :> <<"50">>, "q" :> <<"abc">>, "q" :> <<"a", "b">>,
     "limit" :> <<"7">>, ("q" :> <<"50">>) @@ ("limit" :> <<"abc">>)}

\* ------------------------------------------------------------ observations
\* Every request seen so far, answered or still in flight.
\* No walk under way; no derivation under way.
NoWalk == [pc |-> "idle", stack |-> <<>>, visited |-> <<>>, coll |-> <<>>]
NoDerived == [op |-> "", source |-> <<>>, result |-> Pending]
NoBackground ==
    [_TASK_REGISTRY |-> <<>>, markers |-> <<>>, constructed |-> 0, raised |-> "",
     requests |-> <<>>, queue |-> <<>>, ran |-> <<>>]

RunsSeen ==
    {[view |-> finished[i].view, rid |-> finished[i].rid, req |-> finished[i].req,
      log |-> finished[i].log] : i \in 1..Len(finished)}
    \cup {[view |-> inflight[i].view, rid |-> inflight[i].rid, req |-> inflight[i].req,
            log |-> inflight[i].log] : i \in 1..Len(inflight)}

Answers == {finished[i] : i \in 1..Len(finished)}
HandlerOf(a) == views[a.view].handler
EventsOf(a, kind, fn) == {i \in 1..Len(a.log) : a.log[i].e = kind /\ a.log[i].fn = fn}
HandlerEvents(a) == {i \in 1..Len(a.log) : a.log[i].e = "handler"}
\* Calls of providers that declare a request parameter.
RequestReads(a) ==
    {i \in 1..Len(a.log) : a.log[i].e = "call" /\ TakesRequest(a.log[i].fn)}

Init ==
    /\ app \in Apps
    /\ markers = StaticMarkers
    /\ partials = <<>>
    /\ funcSig = [f \in DOMAIN FnTable |-> [set |-> FALSE, sig |-> <<>>]]
    /\ registry = [v \in Verbs |-> <<>>]
    /\ views = <<>>
    /\ counters = [c \in Counters |-> 0]
    /\ inflight = <<>>
    /\ finished = <<>>
    /\ nregs = 0
    /\ nreqs = 0
    /\ query_call = NoQueryCall
    /\ walk = NoWalk
    /\ derived = NoDerived
    /\ background = NoBackground

Next ==
    \/ \E verb \in Verbs, h \in Handlers : Register(verb, h)
    \/ \E verb \in Verbs, v \in 1..MaxRegs : Redecorate(verb, v)
    \/ \E v \in 1..MaxRegs : decorated(v)
    \/ \E v \in 1..MaxRegs : adecorated(v)
    \/ \E k \in 1..MaxReqs : Resume(k)

Spec == Init /\ [][Next]_vars

\* An application with two routes that have separate dependency trees: a sync
\* route over a provider that reads the request, and an async route over a
\* slow provider and another reference to the provider that reads the request.
RoutesApp == {"h_d1", "ah_conc"}

RoutesInit ==
    /\ app = RoutesApp
    /\ markers = StaticMarkers
    /\ partials = <<>>
    /\ funcSig = [f \in DOMAIN FnTable |-> [set |-> FALSE, sig |-> <<>>]]
    /\ registry = [v \in Verbs |-> <<>>]
    /\ views = <<>>
    /\ counters = [c \in Counters |-> 0]
    /\ inflight = <<>>
    /\ finished = <<>>
    /\ nregs = 0
    /\ nreqs = 0
    /\ query_call = NoQueryCall
    /\ walk = NoWalk
    /\ derived = NoDerived
    /\ background = NoBackground

RoutesSpec == RoutesInit /\ [][Next]_vars

\* A specification of the query-parameter marker alone: one marker, one
\* request, one call.
QueryInit ==
    /\ app = {}
    /\ markers = <<>>
    /\ partials = <<>>
    /\ funcSig = <<>>
    /\ registry = [v \in Verbs |-> <<>>]
    /\ views = <<>>
    /\ counters = [c \in Counters |-> 0]
    /\ inflight = <<>>
    /\ finished = <<>>
    /\ nregs = 0
    /\ nreqs = 0
    /\ walk = NoWalk
    /\ derived = NoDerived
    /\ background = NoBackground
    /\ \E param_name \in {"", "limit"}, required \in BOOLEAN, _default \in {empty, IntVal(10), None},
          annotation_type \in AnnotationTypes, default \in {SignatureEmpty, StrVal("default"), None},
          query_params \in QueryStrings :
          query_call = [self |-> QueryParams(param_name, required, _default, "q",
                                             annotation_type, default),
                        query_params |-> query_params, result |-> Pending]

QueryCall ==
    /\ "query_params" \in DOMAIN query_call
    /\ query_call.result = Pending
    /\ query_call' = [query_call EXCEPT
                          !.result = QueryParams_call(query_call.self, query_call.query_params)]
    /\ UNCHANGED <<app, markers, partials, funcSig, registry, views, counters,
                   inflight, finished, nregs, nreqs, walk, derived, background>>

QueryNext == QueryCall

QuerySpec == QueryInit /\ [][QueryNext]_vars

\* ------------------------------------------------------- JSON body marker
\* request.body as Django gives it: bytes, b"" when the request has no body.
\* A body is modelled by what json.loads makes of it: nothing to parse, text
\* that is not JSON, or an object with its items.
EmptyBody == [raw |-> "empty", items |-> <<>>]
Malformed == [raw |-> "malformed", items |-> <<>>]
Object(items) == [raw |-> "object", items |-> items]

\* Request.has_body: self.body is not None.
has_body(body) == body # None

\* Request.json(): json.loads, any error turned into a validation error.
json(body) ==
    IF body.raw = "object"
    THEN [exc |-> "", val |-> body.items]
    ELSE [exc |-> "ValidationError", val |-> StrVal("Invalid request body: Expecting value")]

\* JsonBody(embed, param_name, required) after the walk has set
\* signature_param_name, annotation_type and default.
JsonBody(embed, param_name, required, signature_param_name, annotation_type, default) ==
    [embed |-> embed, param_name |-> param_name, required |-> required,
     signature_param_name |-> signature_param_name,
     annotation_type |-> annotation_type, default |-> default]

DictVal(items) == [t |-> "dict", n |-> 0, s |-> "", h |-> items]

\* annotation_type(body_data) for str, int and dict, any error turned into a
\* validation error.
BodyCast(annotation_type, body_data) ==
    CASE annotation_type = "str" ->
             [exc |-> "", loc |-> <<>>,
              val |-> IF body_data.t = "str" THEN body_data
                      ELSE IF body_data.t = "none" THEN StrVal("None")
                      ELSE StrVal("{...}")]
      [] annotation_type = "int" /\ body_data.t = "str" /\ IntOf(body_data.s).exc = "" ->
             [exc |-> "", loc |-> <<>>, val |-> IntOf(body_data.s).val]
      [] annotation_type = "dict" /\ body_data.t = "dict" ->
             [exc |-> "", loc |-> <<>>, val |-> body_data]
      [] OTHER ->
             [exc |-> "ValidationError", loc |-> <<>>,
              val |-> StrVal("Failed to parse body")]

\* body_data: the embedded item (None when the key is missing) or the whole
\* object.
BodyData(self, param_name, body_data) ==
    IF self.embed /\ body_data \in {None, StrVal("")} /\ self.required
    THEN [exc |-> "ValidationError", loc |-> <<>>,
          val |-> StrVal("Missing request body: " \o NameText(param_name))]
    ELSE BodyCast(self.annotation_type, body_data)

BodyParsed(self, param_name, parsed) ==
    IF parsed.exc # ""
    THEN [exc |-> parsed.exc, loc |-> <<>>, val |-> parsed.val]
    ELSE BodyData(self, param_name,
             IF ~self.embed THEN DictVal(parsed.val)
             ELSE IF param_name \in DOMAIN parsed.val THEN StrVal(parsed.val[param_name])
             ELSE None)

\* JsonBody.__call__(self, request) on a request whose body is body, for a
\* declared type that is not a pydantic model.
JsonBody_call(self, body) ==
    IF ~has_body(body)
    THEN IF self.default # None
         THEN [exc |-> "", loc |-> <<>>, val |-> self.default]
         ELSE IF self.required
         THEN [exc |-> "ValidationError", loc |-> <<>>, val |-> StrVal("Missing request body")]
         ELSE [exc |-> "", loc |-> <<>>, val |-> None]
    ELSE BodyParsed(self,
             IF self.param_name # "" THEN self.param_name ELSE self.signature_param_name,
             json(body))

Bodies ==
    {EmptyBody, Malformed, Object(<<>>), Object("item" :> "7"), Object("item" :> "abc"),
     Object("other" :> "7"), Object("item" :> "")}

\* A specification of the custom-field markers alone: one marker (query
\* parameter, header or JSON body), one request, one call.
NoApplication ==
    /\ app = {}
    /\ markers = <<>>
    /\ partials = <<>>
    /\ funcSig = <<>>
    /\ registry = [v \in Verbs |-> <<>>]
    /\ views = <<>>
    /\ counters = [c \in Counters |-> 0]
    /\ inflight = <<>>
    /\ finished = <<>>
    /\ nregs = 0
    /\ nreqs = 0
    /\ walk = NoWalk
    /\ derived = NoDerived
    /\ background = NoBackground

HeaderInit ==
    /\ NoApplication
    /\ \E param_name \in {"", "X-Token"}, required \in BOOLEAN,
          annotation_type \in {"", "str"}, headers \in {NoHeaders, "x-token" :> "abc"} :
          query_call = [self |-> [Header(1, param_name, required)
                                      EXCEPT !.annotation_type = annotation_type],
                        headers |-> headers, result |-> Pending]

BodyInit ==
    /\ NoApplication
    /\ \E embed \in BOOLEAN, param_name \in {"", "item"}, required \in BOOLEAN,
          annotation_type \in {"str", "int", "dict"}, default \in {None, StrVal("default")},
          body \in Bodies :
          query_call = [self |-> JsonBody(embed, param_name, required, "payload",
                                          annotation_type, default),
                        body |-> body, result |-> Pending]

FieldInit == QueryInit \/ HeaderInit \/ BodyInit

HeaderReturned(r) == [exc |-> r.exc, val |-> r.val, loc |-> <<>>]

HeaderCall ==
    /\ "headers" \in DOMAIN query_call
    /\ query_call.result = Pending
    /\ query_call' = [query_call EXCEPT
          !.result = HeaderReturned(
                         Header_call(query_call.self,
                                     WithHeaders(ReqVal(1, "GET"), query_call.headers),
                                     counters))]
    /\ UNCHANGED <<app, markers, partials, funcSig, registry, views, counters,
                   inflight, finished, nregs, nreqs, walk, derived, background>>

JsonBodyCall ==
    /\ "body" \in DOMAIN query_call
    /\ query_call.result = Pending
    /\ query_call' = [query_call EXCEPT
                          !.result = JsonBody_call(query_call.self, query_call.body)]
    /\ UNCHANGED <<app, markers, partials, funcSig, registry, views, counters,
                   inflight, finished, nregs, nreqs, walk, derived, background>>

FieldNext == QueryCall \/ HeaderCall \/ JsonBodyCall

FieldSpec == FieldInit /\ [][FieldNext]_vars

\* A specification of the graph walk alone, one loop iteration per step.  The
\* stack holds one frame per loop under way: the handler's loop over its own
\* parameters at the bottom, one frame per update_deep_dependencies call above
\* it; the top frame is the last element.
Frame(sig, handler) == [sig |-> sig, i |-> 1, handler |-> handler]
Top == walk.stack[Len(walk.stack)]
Advanced == [walk.stack EXCEPT ![Len(walk.stack)].i = @ + 1]

\* The decorator up to its loop: auto-dependency stripping and the deep copy.
WalkBegun(st, cp) ==
    /\ markers' = cp.H.markers
    /\ partials' = cp.H.partials
    /\ funcSig' = cp.H.funcSig
    /\ walk' = [pc |-> "walking", stack |-> <<Frame(st.sig, TRUE)>>,
                visited |-> <<>>, coll |-> <<>>]

WalkStripped(st) == WalkBegun(st, deepcopy(st.sig, st.H))

WalkBegin ==
    /\ walk.pc = "idle"
    /\ \E h \in app :
          WalkStripped(StripDefaults(FnRef(h), SignatureFromCallable(FnRef(h), Heap), Heap))
    /\ UNCHANGED <<app, registry, views, counters, inflight, finished, nregs, nreqs,
                   query_call, derived, background>>

\* The call entered without the loop over the dependency's own parameters.
WalkEnteredShallow(p, signature, W) ==
    /\ markers' = W.markers
    /\ partials' = W.partials
    /\ walk' = [walk EXCEPT !.stack = Advanced,
                            !.visited = Append(@, p.marker),
                            !.coll = W.coll]

\* W: the heaps once the marker of parameter p has been partialised or left
\* alone; signature: the signature its dependency had on entry.
WalkEntered(p, signature, W) ==
    /\ markers' = W.markers
    /\ partials' = W.partials
    /\ walk' = [walk EXCEPT !.stack = Append(Advanced, Frame(signature, FALSE)),
                            !.visited = Append(@, p.marker),
                            !.coll = W.coll]

WalkUpdate(p, signature, W) ==
    WalkEntered(p, signature,
        IF DOMAIN get_default_dependencies(signature) # {}
        THEN Partialised(p.marker, signature, W) ELSE W)

WalkClassified(p, W) ==
    WalkUpdate(p, SignatureFromCallable(W.markers[p.marker].dep, W), W)

\* The next parameter of the loop on top carries a Depends marker:
\* update_deep_dependencies is entered for it.
WalkDepends ==
    /\ walk.pc = "walking"
    /\ Top.i <= Len(Top.sig)
    /\ is_depends(Top.sig[Top.i])
    /\ WalkClassified(Top.sig[Top.i],
          IF Top.handler
          THEN Classified(Top.sig[Top.i],
                   [markers |-> markers, partials |-> partials, funcSig |-> funcSig,
                    coll |-> walk.coll])
          ELSE [markers |-> markers, partials |-> partials, funcSig |-> funcSig,
                coll |-> walk.coll])
    /\ UNCHANGED <<app, funcSig, registry, views, counters, inflight, finished, nregs,
                   nreqs, query_call, derived, background>>

\* The next parameter carries no Depends marker: the loop goes on.
WalkContinue ==
    /\ walk.pc = "walking"
    /\ Top.i <= Len(Top.sig)
    /\ ~is_depends(Top.sig[Top.i])
    /\ walk' = [walk EXCEPT !.stack = Advanced]
    /\ UNCHANGED <<app, markers, partials, funcSig, registry, views, counters, inflight,
                   finished, nregs, nreqs, query_call, derived, background>>

\* The loop on top is exhausted: the call returns; the walk is over when the
\* handler's own loop is.
WalkReturn ==
    /\ walk.pc = "walking"
    /\ Top.i > Len(Top.sig)
    /\ walk' = [walk EXCEPT !.stack = SubSeq(@, 1, Len(@) - 1),
                            !.pc = IF Len(walk.stack) = 1 THEN "done" ELSE "walking"]
    /\ UNCHANGED <<app, markers, partials, funcSig, registry, views, counters, inflight,
                   finished, nregs, nreqs, query_call, derived, background>>

WalkNext == WalkBegin \/ WalkDepends \/ WalkContinue \/ WalkReturn

\* The interpreter runs the walk to its end: a step that can be taken is taken.
WalkSpec == Init /\ [][WalkNext]_vars /\ WF_vars(WalkNext)

\* A specification of the operations on a signature alone: one signature, one
\* call of one operation.  Besides the annotations of the routes above, "Generic"
\* stands for an annotation that is not a class (list[str], str | None): the
\* issubclass test of is_request raises TypeError on it.
SignatureOperations ==
    {"new_signature_without_default_dependencies", "new_signature_without_annotated",
     "wrapper"}
ParameterNames == {"request", "settings", "app", "state", "item_id"}
RawAnnotations == {"Request", "Settings", "App", "State", "Plain", "Generic"}
SourceParameters ==
    {Plain(name, ann) : name \in ParameterNames, ann \in RawAnnotations}
    \cup {Dep(name, 1) : name \in {"request", "settings", "dep"}}

DistinctNames(sig) == \A i, j \in 1..Len(sig) : sig[i].name = sig[j].name => i = j

SourceSignatures ==
    {sig \in UNION {[1..n -> SourceParameters] : n \in 0..MaxParams} : DistinctNames(sig)}

DeriveInit ==
    /\ app = {}
    /\ markers = <<>>
    /\ partials = <<>>
    /\ funcSig = <<>>
    /\ registry = [v \in Verbs |-> <<>>]
    /\ views = <<>>
    /\ counters = [c \in Counters |-> 0]
    /\ inflight = <<>>
    /\ finished = <<>>
    /\ nregs = 0
    /\ nreqs = 0
    /\ query_call = NoQueryCall
    /\ walk = NoWalk
    /\ \E sig \in SourceSignatures, op \in SignatureOperations :
          derived = [op |-> op, source |-> sig, result |-> Pending]
    /\ background = NoBackground

\* Some parameter that is not annotated has an annotation that is not a class.
NonClassAnnotation(sig) ==
    \E i \in 1..Len(sig) : ~is_annotated(sig[i]) /\ sig[i].ann = "Generic"

\* The loop reaches is_auto_depends for every parameter that is not annotated.
DeriveCall ==
    /\ derived.op = "new_signature_without_default_dependencies"
    /\ derived.result = Pending
    /\ derived' = [derived EXCEPT !.result =
          IF NonClassAnnotation(derived.source)
          THEN [exc |-> "TypeError", val |-> <<>>, loc |-> <<>>]
          ELSE [exc |-> "",
                val |-> new_signature_without_default_dependencies(derived.source),
                loc |-> <<>>]]
    /\ UNCHANGED <<app, markers, partials, funcSig, registry, views, counters,
                   inflight, finished, nregs, nreqs, query_call, walk, background>>

\* is_annotated inspects the annotation without a subclass test: no annotation
\* makes it raise.
WithoutAnnotatedCall ==
    /\ derived.op = "new_signature_without_annotated"
    /\ derived.result = Pending
    /\ derived' = [derived EXCEPT !.result =
          [exc |-> "", val |-> new_signature_without_annotated(derived.source),
           loc |-> <<>>]]
    /\ UNCHANGED <<app, markers, partials, funcSig, registry, views, counters,
                   inflight, finished, nregs, nreqs, query_call, walk, background>>

\* The wrapper's auto-dependency stripping of a handler with this signature,
\* and its later test for a request parameter: has_default_dependencies, then
\* get_default_dependencies and new_signature_without_default_dependencies,
\* then has_request_object on the signature it is left with.  The subclass
\* tests raise on the first non-annotated parameter whose annotation is not a
\* class, in has_default_dependencies or, when that returned before reaching
\* it, in get_default_dependencies.
Stripped(st) ==
    [exc |-> "",
     val |-> [api_func |-> st.api_func,
              keywords |-> EffectiveKeywords(st.api_func, st.H),
              api_func_signature |-> st.sig,
              has_request_object |-> has_request_object(st.sig)],
     loc |-> <<>>]

StripCall ==
    /\ derived.op = "wrapper"
    /\ derived.result = Pending
    /\ derived' = [derived EXCEPT !.result =
          IF NonClassAnnotation(derived.source)
          THEN [exc |-> "TypeError", val |-> <<>>, loc |-> <<>>]
          ELSE Stripped(StripDefaults(FnRef("route"), derived.source,
                            [markers |-> <<>>, partials |-> <<>>, funcSig |-> <<>>]))]
    /\ UNCHANGED <<app, markers, partials, funcSig, registry, views, counters,
                   inflight, finished, nregs, nreqs, query_call, walk, background>>

DeriveNext == DeriveCall \/ WithoutAnnotatedCall \/ StripCall

DeriveSpec == DeriveInit /\ [][DeriveNext]_vars

\* ------------------------------------------------------- background tasks
\* Tasks passed to one BackgroundTask(...) call, constructor calls, and the
\* functions a program can pass: two different functions share the name
\* send_email.
MaxTasks == 2
MaxMarkers == 2
TaskFunctions ==
    {[name |-> "send_email", id |-> 1], [name |-> "send_email", id |-> 2],
     [name |-> "write_log", id |-> 3]}
TaskLists == UNION {[1..n -> TaskFunctions] : n \in 1..MaxTasks}
ArgTuples == {<<"alice">>, <<"bob">>}
KwargDicts == {<<>>, "retries" :> 1}
Unset == [t |-> "unset", n |-> 0, s |-> "", h |-> NoHeaders]

BackgroundTaskEvent(task_name, args, kwargs) ==
    [task_name |-> task_name, args |-> args, kwargs |-> kwargs]

\* The loop of BackgroundTask.__init__ from task i on: every task is stored
\* under its name as it is met; a name already stored ends the loop with
\* ValueError.
RECURSIVE RegisterTasks(_, _, _)
RegisterTasks(tasks, i, reg) ==
    IF i > Len(tasks) THEN [reg |-> reg, exc |-> ""]
    ELSE IF tasks[i].name \notin DOMAIN reg
         THEN RegisterTasks(tasks, i + 1, (tasks[i].name :> tasks[i]) @@ reg)
         ELSE [reg |-> reg, exc |-> "ValueError"]

\* BackgroundTask(*tasks): the marker exists only when the constructor returns.
BackgroundTask_init(tasks) ==
    /\ background.constructed < MaxMarkers
    /\ LET r == RegisterTasks(tasks, 1, background._TASK_REGISTRY)
       IN background' =
              [background EXCEPT
                  !._TASK_REGISTRY = r.reg,
                  !.constructed = @ + 1,
                  !.raised = r.exc,
                  !.markers = IF r.exc = "" THEN Append(@, [_tasks |-> tasks, _args |-> Unset,
                                                            _kwargs |-> Unset])
                              ELSE @]
    /\ UNCHANGED <<app, markers, partials, funcSig, registry, views, counters,
                   inflight, finished, nregs, nreqs, query_call, walk, derived>>

\* A request calls marker m: marker(*args, **kwargs).
BackgroundTask_call(m, args, kwargs) ==
    /\ m \in 1..Len(background.markers)
    /\ Len(background.requests) < MaxReqs
    /\ background' =
           [background EXCEPT
               !.markers[m]._args = args,
               !.markers[m]._kwargs = kwargs,
               !.requests = Append(@, [marker |-> m, args |-> args, kwargs |-> kwargs,
                                       pc |-> "called", i |-> 0, published |-> <<>>])]
    /\ UNCHANGED <<app, markers, partials, funcSig, registry, views, counters,
                   inflight, finished, nregs, nreqs, query_call, walk, derived>>

\* Request r awaits marker.start(): the coroutine runs up to `await clean()`.
start(r) ==
    /\ r \in 1..Len(background.requests)
    /\ background.requests[r].pc = "called"
    /\ background' = [background EXCEPT !.requests[r].pc = "publish"]
    /\ UNCHANGED <<app, markers, partials, funcSig, registry, views, counters,
                   inflight, finished, nregs, nreqs, query_call, walk, derived>>

\* One iteration of the loop of start(): the event of the next task is built
\* from the marker's attributes as they are now and published.
publish_event(r) ==
    /\ r \in 1..Len(background.requests)
    /\ background.requests[r].pc = "publish"
    /\ LET self == background.markers[background.requests[r].marker]
           i == background.requests[r].i + 1
           event == BackgroundTaskEvent(self._tasks[i].name, self._args, self._kwargs)
       IN background' =
              [background EXCEPT
                  !.queue = Append(@, event),
                  !.requests[r].published = Append(@, event),
                  !.requests[r].i = i,
                  !.requests[r].pc = IF i = Len(self._tasks) THEN "done" ELSE "publish"]
    /\ UNCHANGED <<app, markers, partials, funcSig, registry, views, counters,
                   inflight, finished, nregs, nreqs, query_call, walk, derived>>

\* The consumer takes the oldest event and calls the task stored under its
\* name, if there is one.
background_task ==
    /\ background.queue # <<>>
    /\ LET event == Head(background.queue)
       IN background' =
              [background EXCEPT
                  !.queue = Tail(@),
                  !.ran = IF event.task_name \in DOMAIN background._TASK_REGISTRY
                          THEN Append(@, [task |-> background._TASK_REGISTRY[event.task_name],
                                          args |-> event.args, kwargs |-> event.kwargs])
                          ELSE @]
    /\ UNCHANGED <<app, markers, partials, funcSig, registry, views, counters,
                   inflight, finished, nregs, nreqs, query_call, walk, derived>>

TaskInit == NoApplication /\ query_call = NoQueryCall

TaskNext ==
    \/ \E tasks \in TaskLists : BackgroundTask_init(tasks)
    \/ \E m \in 1..MaxMarkers, args \in ArgTuples, kwargs \in KwargDicts :
           BackgroundTask_call(m, args, kwargs)
    \/ \E r \in 1..MaxReqs : start(r)
    \/ \E r \in 1..MaxReqs : publish_event(r)
    \/ background_task

TaskSpec == TaskInit /\ [][TaskNext]_vars

\* ------------------------------------------------------------------ claims
RequestRoutes == {"h_d1", "h_d2", "h_d3"}
RawRequestRoutes == {"h_raw", "ah_raw", "h_both", "ah_both"}

\* C1: a provider that declares a request parameter and is reached through
\* Depends at depth 1, 2 or 3 observes the request of the call being served,
\* under every verb the handler function is registered with: the call is
\* answered 200 with the method of its own request, and every such provider
\* call saw that request.
C1_ProviderSeesOwnRequest ==
    \A a \in Answers :
        HandlerOf(a) \in RequestRoutes =>
            /\ a.status = 200
            /\ a.body = StrVal(a.req.s)
            /\ RequestReads(a) # {}
            /\ \A i \in RequestReads(a) : a.log[i].obs = a.req

\* C2: two requests to the same route never interleave the writing of the
\* request into a shared binding with the call that reads it: no call made
\* for one request observes the request object of the other.
C2_NoCrossRequestObservation ==
    \A a \in RunsSeen, b \in RunsSeen :
        (a.view = b.view /\ a.rid # b.rid) =>
            \A i \in 1..Len(a.log) : a.log[i].obs # b.req

\* C3: a handler that declares a raw request parameter is called with the
\* request the router passed, never with None, in sync and async routes, also
\* when it has a further Depends parameter whose provider needs the request.
C3_HandlerReceivesRequest ==
    \A a \in Answers :
        HandlerOf(a) \in RawRequestRoutes =>
            /\ HandlerEvents(a) # {}
            /\ \A i \in HandlerEvents(a) : a.log[i].obs = a.req
            /\ \A i \in RequestReads(a) : a.log[i].obs = a.req

Count(a, kind, fn) == Cardinality(EventsOf(a, kind, fn))
TheHandlerEvent(a) == a.log[CHOOSE i \in HandlerEvents(a) : TRUE]
ProviderCalls(a) == {i \in 1..Len(a.log) : a.log[i].e = "call"}
Nth(S, n) == CHOOSE i \in S : Cardinality({j \in S : j < i}) = n - 1

CachedRoutes == {"h_cache", "h_rcache", "ah_cache"}
UncachedRoutes == {"h_nocache", "ah_nocache", "h_rnocache"}

\* C4: a provider referenced twice through cache-enabled Depends markers is
\* invoked exactly once per request and both parameters receive the same
\* value, for sync and async providers, whether or not the provider needs the
\* request.
C4_CachedProviderRunsOnce ==
    \A a \in Answers :
        HandlerOf(a) \in CachedRoutes =>
            /\ a.status = 200
            /\ Cardinality(ProviderCalls(a)) = 1
            /\ TheHandlerEvent(a).args[1] = TheHandlerEvent(a).args[2]

\* C5: when the second reference is marked use_cache=False the provider is
\* invoked exactly twice in the request and each reference receives the value
\* of its own invocation; a counter provider gives 1 to the first reference
\* and 2 to the second when the request is the only one served.
C5_UncachedReferenceRunsAgain ==
    \A a \in Answers :
        HandlerOf(a) \in UncachedRoutes =>
            /\ a.status = 200
            /\ Cardinality(ProviderCalls(a)) = 2
            /\ TheHandlerEvent(a).args[1] = a.log[Nth(ProviderCalls(a), 1)].val
            /\ TheHandlerEvent(a).args[2] = a.log[Nth(ProviderCalls(a), 2)].val
            /\ TheHandlerEvent(a).args[1] # TheHandlerEvent(a).args[2]
            /\ nreqs = 1 => TheHandlerEvent(a).args = <<IntVal(1), IntVal(2)>>

C5_Witness ==
    \E a \in Answers :
        /\ HandlerOf(a) \in UncachedRoutes
        /\ Cardinality(ProviderCalls(a)) = 2
        /\ TheHandlerEvent(a).args = <<IntVal(1), IntVal(2)>>

\* The lifecycle of a request as the tests' call tracker records it.
Trace(a) == [i \in 1..Len(a.log) |-> <<a.log[i].e, a.log[i].fn>>]
Setups(a) == {a.log[i].fn : i \in {j \in 1..Len(a.log) : a.log[j].e = "setup"}}

\* C6: with yield-based providers that consume one another, every provider's
\* setup runs before the setup of its consumer, the handler body runs after
\* all setups, and the teardowns run in exactly the reverse of the setup order
\* (three levels: setup_c, setup_b, setup_a, handler, teardown_a, teardown_b,
\* teardown_c).
C6_TeardownReversesSetup ==
    \A a \in Answers :
        /\ HandlerOf(a) = "h_deep" =>
              /\ a.status = 200
              /\ Trace(a) = << <<"setup", "gen_c">>, <<"setup", "gen_b">>,
                               <<"setup", "gen_a">>, <<"handler", "h_deep">>,
                               <<"teardown", "gen_a">>, <<"teardown", "gen_b">>,
                               <<"teardown", "gen_c">> >>
        /\ HandlerOf(a) = "ah_deep" =>
              /\ a.status = 200
              /\ Trace(a) = << <<"setup", "agen_b">>, <<"setup", "agen_a">>,
                               <<"handler", "ah_deep">>,
                               <<"teardown", "agen_a">>, <<"teardown", "agen_b">> >>

C6_Witness ==
    \E a \in Answers :
        /\ HandlerOf(a) = "h_deep"
        /\ Len(a.log) = 7
        /\ a.log[7] = Event("teardown", "gen_c", None, <<>>, None)

SetupErrorRoutes == {"h_sib_err", "h_nest_err"}
FailingProvider(h) == IF h = "h_sib_err" THEN "gen_setup_err" ELSE "gen_nest_err"

\* C7: when a yield-based provider raises during setup, its own teardown is
\* never called, the handler body is never invoked, the route answers 500, and
\* every provider that had already completed setup still runs its teardown.
C7_SetupErrorSkipsOwnTeardown ==
    \A a \in Answers :
        HandlerOf(a) \in SetupErrorRoutes =>
            /\ Count(a, "setup", FailingProvider(HandlerOf(a))) = 1
            /\ Count(a, "teardown", FailingProvider(HandlerOf(a))) = 0
            /\ HandlerEvents(a) = {}
            /\ a.status = 500
            /\ Count(a, "setup", "gen_c") = 1
            /\ Count(a, "teardown", "gen_c") = 1

C7_Witness ==
    \E a \in Answers :
        /\ HandlerOf(a) = "h_sib_err"
        /\ Trace(a) = << <<"setup", "gen_c">>, <<"setup", "gen_setup_err">>,
                         <<"teardown", "gen_c">> >>
        /\ a.status = 500

RaisingRoutes == {"h_raise", "h_http", "h_dep_http"}

\* C8: when the handler body raises after its yield-based providers have
\* yielded, or an HTTP error reaches a provider's body, every provider that was
\* set up runs its teardown exactly once and the error is reported: 500 for a
\* handler exception, the HTTP error's own status (403) otherwise.
C8_ErrorStillTearsDown ==
    \A a \in Answers :
        HandlerOf(a) \in RaisingRoutes =>
            /\ Setups(a) # {}
            /\ \A fn \in Setups(a) :
                   Count(a, "setup", fn) = 1 /\ Count(a, "teardown", fn) = 1
            /\ a.status = IF HandlerOf(a) = "h_raise" THEN 500 ELSE 403

C8_Witness ==
    \E a \in Answers :
        /\ HandlerOf(a) = "h_raise"
        /\ Trace(a) = << <<"setup", "gen_c">>, <<"setup", "gen_b">>,
                         <<"handler", "h_raise">>,
                         <<"teardown", "gen_b">>, <<"teardown", "gen_c">> >>
        /\ a.status = 500

TeardownErrorRoutes == {"h_td_err", "ah_td_err"}
TeardownRaiser(h) == IF h = "h_td_err" THEN "gen_td_err" ELSE "agen_td_err"

\* C9: an exception raised by a yield-based provider's cleanup code, after the
\* handler has produced its value, does not override the successful response:
\* the caller receives 200 with the handler's value, and the provider's setup
\* and teardown were each called once.
C9_TeardownErrorKeepsResponse ==
    \A a \in Answers :
        HandlerOf(a) \in TeardownErrorRoutes =>
            /\ Count(a, "setup", TeardownRaiser(HandlerOf(a))) = 1
            /\ Count(a, "teardown", TeardownRaiser(HandlerOf(a))) = 1
            /\ a.status = 200
            /\ a.body = StrVal(TeardownRaiser(HandlerOf(a)))

\* Wrappers produced by decorating an earlier wrapper again.
Redecorated == {w \in 1..Len(views) : views[w].input.k = "view"}
FirstOf(w) == views[w].input.id
BoundProviders(v) ==
    {Underlying(markers[views[v].bindings[i]].dep, Heap) :
        i \in 1..Len(views[v].bindings)}
Outcome(v, request) ==
    LET a == Serve(v, request).answer
    IN [status |-> a.status, body |-> a.body, log |-> a.log]
ProbeRequest == ReqVal(nreqs + 1, "GET")

\* C10: decorating an already decorated handler again first recovers the
\* original undecorated handler function (as it was before auto-parameter
\* stripping and injection) and then produces a wrapper equivalent to the first
\* one: same public signature, same set of deferred bindings, and the same
\* result and provider-observed request for every call.
C10_RedecorationEquivalent ==
    \A w \in Redecorated :
        /\ Unwrap(views[w].input) = FnRef(views[w].handler)
        /\ views[w].public_sig = views[FirstOf(w)].public_sig
        /\ BoundProviders(w) = BoundProviders(FirstOf(w))
        /\ Outcome(w, ProbeRequest) = Outcome(FirstOf(w), ProbeRequest)

\* ------------------------------------------------------- header extraction
\* Routes whose own parameters carry Header markers without a default.
DirectHeaderRoutes == {"h_required", "h_infer", "h_multi", "ah_infer"}

\* The source name parameter i of handler h declares: the name given to its
\* Header marker, or the name of the parameter when the marker names none.
DeclaredSource(h, i) ==
    IF StaticMarkers[FnTable[h].params[i].marker].param_name # ""
    THEN StaticMarkers[FnTable[h].params[i].marker].param_name
    ELSE FnTable[h].params[i].name

\* The header parameters of the route whose header the request does not carry.
MissingHeaders(a) ==
    {i \in 1..Len(FnTable[HandlerOf(a)].params) :
        ~InHeaders(DeclaredSource(HandlerOf(a), i), a.req.h)}

\* The value the request carries for header parameter i.
Supplied(a, i) == StrVal(HeaderItem(DeclaredSource(HandlerOf(a), i), a.req.h))

\* The message of the validation error: what the failing extractor raised.
ErrorMessage(a) == a.log[Max(ProviderCalls(a))].val.s

\* C11: a request that omits the header of a required header parameter is
\* answered 422 and the first error message is 'Missing header: <name>' where
\* <name> is the marker's declared source name, or the parameter name when the
\* marker declares none; with several header parameters it names the missing one.
C11_MissingHeaderNamed ==
    \A a \in Answers :
        (HandlerOf(a) \in DirectHeaderRoutes /\ MissingHeaders(a) # {}) =>
            /\ a.status = 422
            /\ \E i \in MissingHeaders(a) :
                   ErrorMessage(a) = "Missing header: " \o DeclaredSource(HandlerOf(a), i)

\* C12: a request that supplies the header under any case variation of its
\* name (underscores of an inferred parameter name matching dashes) is answered
\* 200 and the parameter receives exactly the supplied value.
C12_HeaderSuppliedAnyCase ==
    \A a \in Answers :
        (HandlerOf(a) \in DirectHeaderRoutes /\ MissingHeaders(a) = {}) =>
            /\ a.status = 200
            /\ HandlerEvents(a) # {}
            /\ \A i \in 1..Len(FnTable[HandlerOf(a)].params) :
                   TheHandlerEvent(a).args[i] = Supplied(a, i)

\* C13: the graph walk sets a Header marker's param_name to the parameter's
\* name only if the marker had no explicit source name: after the walk the
\* marker of every header parameter holds its declared source name, and a
\* request carrying the explicit name is answered with its value.
C13_ExplicitNameKept ==
    /\ \A v \in 1..Len(views) :
           views[v].handler \in DirectHeaderRoutes =>
               \A i \in 1..Len(views[v].api_func_signature) :
                   markers[views[v].api_func_signature[i].marker].param_name
                       = DeclaredSource(views[v].handler, i)
    /\ \A a \in Answers :
           (HandlerOf(a) = "h_required" /\ "X-Required" \in DOMAIN a.req.h) =>
               a.status = 200 /\ a.body = StrVal(a.req.h["X-Required"])

\* The Header markers the call model of view v reaches.
ReachedHeaders(v) ==
    {BoundSelf(views[v].plan[n].call, partials)[1].n :
        n \in {j \in 1..Len(views[v].plan) : views[v].plan[j].fn = "Header_call"}}

\* C14: every Header marker reachable from the handler, also one declared on a
\* parameter of a provider, has its owning parameter's name and declared type
\* by the time a request is served, and extracts its value from the current
\* request, under each verb.
C14_NestedMarkerClassified ==
    \A a \in Answers :
        HandlerOf(a) \in {"h_hdep", "h_infer"} =>
            /\ \A m \in ReachedHeaders(a.view) :
                   markers[m].param_name = "x_api_key" /\ markers[m].annotation_type = "str"
            /\ ("X-API-Key" \in DOMAIN a.req.h) =>
                   a.status = 200 /\ a.body = StrVal(a.req.h["X-API-Key"])

\* C15: when a header parameter has a default value in the function signature
\* and the request does not carry the header, the handler receives that default
\* and the answer is 200.
C15_SignatureDefaultUsed ==
    \A a \in Answers :
        (HandlerOf(a) = "h_optional" /\ ~InHeaders("X-Optional", a.req.h)) =>
            /\ a.status = 200
            /\ HandlerEvents(a) # {}
            /\ TheHandlerEvent(a).args[1] = StrVal(FnTable["h_optional"].params[1].default)

\* ---------------------------------------------------------- app injection
AppRoutes == {"h_app", "ah_app", "h_app_dep", "ah_app_dep"}

\* The calls of functions that declare a parameter typed as the application.
AppCalls(a) ==
    {i \in 1..Len(a.log) : a.log[i].fn \in {"h_app", "ah_app", "p_app", "ap_app"}}

\* C16: a non-annotated parameter typed as the application class, whatever its
\* name, on a handler or on a provider reached through Depends, receives the
\* application instance the route was registered on, for sync and async routes.
C16_AppInjectedByType ==
    \A a \in Answers :
        HandlerOf(a) \in AppRoutes =>
            /\ a.status = 200
            /\ AppCalls(a) # {}
            /\ \A i \in AppCalls(a) : a.log[i].args = <<AppVal>>
            /\ a.body = AppVal

\* ------------------------------------------------------ multilevel chains
ChainRoutes == {"h_chain2", "h_chain3", "ah_chain2"}
ChainDepth(h) == IF h = "h_chain3" THEN 3 ELSE 2

\* The concatenation of the tags of levels level..depth, in level order.
RECURSIVE ExpectedOutput(_, _)
ExpectedOutput(level, depth) ==
    IF level = depth THEN "level" \o ToString(depth)
    ELSE "level" \o ToString(level) \o "_" \o ExpectedOutput(level + 1, depth)

QueryName ==
    IF query_call.self.param_name # ""
    THEN query_call.self.param_name
    ELSE query_call.self.signature_param_name

QueryPresent == QueryName \in DOMAIN query_call.query_params

QueryCalled == query_call.result # Pending

\* The declared type with Optional removed, and whether the last value of the
\* parameter in the query string converts to it.
QueryBaseType ==
    CASE query_call.self.annotation_type = "Optional[str]" -> "str"
      [] query_call.self.annotation_type = "Optional[int]" -> "int"
      [] OTHER -> query_call.self.annotation_type

QueryConverts ==
    /\ QueryPresent
    /\ QueryBaseType # "dict[str, str]"
    /\ QueryBaseType = "int" =>
           query_call.query_params[QueryName] \in {<<"50">>, <<"7">>}

\* The value a converting request yields.
QueryExpected ==
    CASE QueryBaseType = "list[str]" ->
             [t |-> "list", n |-> 0, s |-> "", h |-> query_call.query_params[QueryName]]
      [] QueryBaseType = "int" /\ query_call.query_params[QueryName] = <<"50">> -> IntVal(50)
      [] QueryBaseType = "int" /\ query_call.query_params[QueryName] = <<"7">> -> IntVal(7)
      [] OTHER -> StrVal(query_call.query_params[QueryName][Len(query_call.query_params[QueryName])])

\* The order of the fallbacks: marker default, signature default, required, None.
QueryFallsBack ==
    IF query_call.self._default # empty
    THEN query_call.result.exc = "" /\ query_call.result.val = query_call.self._default
    ELSE IF query_call.self.default # SignatureEmpty
    THEN query_call.result.exc = "" /\ query_call.result.val = query_call.self.default
    ELSE IF query_call.self.required
    THEN /\ query_call.result.exc = "ValidationError"
         /\ query_call.result.val = StrVal("Missing query parameter: " \o QueryName)
    ELSE query_call.result.exc = "" /\ query_call.result.val = None

\* C19 as stated: a query-parameter marker yields the coerced request value
\* whenever the parameter is present in the query string, and otherwise the
\* marker's default, the signature's default, the 422 "Missing query
\* parameter: <name>" of a required marker, or None, in that order.
C19_PresentYieldsCoercedValue ==
    QueryCalled =>
        IF QueryPresent
        THEN /\ query_call.result.exc = ""
             /\ query_call.result.val.t = (CASE QueryBaseType = "int" -> "int"
                                             [] QueryBaseType = "list[str]" -> "list"
                                             [] OTHER -> "str")
        ELSE QueryFallsBack

\* C19 amended: a present parameter whose value converts to the declared type
\* yields the converted value; a present value that does not convert raises a
\* 422 located at ("query", <name>) carrying the conversion error when the
\* declared type is not Optional, and is treated as absent when it is
\* Optional; an absent parameter yields the marker's default, else the
\* signature's default, else the 422 "Missing query parameter: <name>" of a
\* required marker, else None.
C19_ResolutionOrder ==
    QueryCalled =>
        IF QueryConverts
        THEN query_call.result.exc = "" /\ query_call.result.val = QueryExpected
        ELSE IF QueryPresent /\ ~is_optional_annotation(query_call.self.annotation_type)
        THEN /\ query_call.result.exc = "ValidationError"
             /\ query_call.result.loc = <<"query", QueryName>>
             /\ query_call.result.val # StrVal("Missing query parameter: " \o QueryName)
        ELSE QueryFallsBack

\* An absent parameter on a required marker with both defaults given: the
\* marker's default (10) wins over the signature's ("default").
C19_Witness ==
    /\ QueryCalled /\ ~QueryPresent
    /\ query_call.self.required
    /\ query_call.self._default = IntVal(10)
    /\ query_call.self.default = StrVal("default")
    /\ query_call.result.val = IntVal(10)

\* The placeholders a call writes, as they stand for run r: every keyword
\* named request, settings, app or state of a partial on the list of the
\* verb's factory, and settings, app and state of the handler's own partial.
WrittenKeywords(kw, names, request) ==
    \A n \in DOMAIN kw \cap names :
        /\ n = "request" => kw[n] = request
        /\ n = "settings" => kw[n] = SettingsVal
        /\ n = "app" => kw[n] = AppVal
        /\ n = "state" => kw[n] = StateVal

WrittenBindings(r) ==
    {markers[BindingsOf(r.view)[i]].dep.id : i \in
        {j \in 1..Len(BindingsOf(r.view)) : markers[BindingsOf(r.view)[j]].dep.k = "partial"}}

PlaceholdersWritten(r) ==
    /\ \A id \in WrittenBindings(r) :
           WrittenKeywords(partials[id].keywords, {"request", "settings", "app", "state"}, r.req)
    /\ views[r.view].api_func.k = "partial" =>
           WrittenKeywords(partials[views[r.view].api_func.id].keywords,
                           {"settings", "app", "state"}, r.req)

\* The nodes of the call model of run r that call provider fn.
NodesOf(r, fn) ==
    {n \in 1..(Len(views[r.view].plan) - 1) : views[r.view].plan[n].fn = fn}

\* The calls run r made of a provider that its call model reaches only through
\* written partials holding a request placeholder.
BoundReads(r) ==
    {i \in 1..Len(r.log) :
        /\ r.log[i].e \in {"call", "setup"}
        /\ NodesOf(r, r.log[i].fn) # {}
        /\ \A n \in NodesOf(r, r.log[i].fn) :
               /\ views[r.view].plan[n].call.k = "partial"
               /\ views[r.view].plan[n].call.id \in WrittenBindings(r)
               /\ "request" \in DOMAIN partials[views[r.view].plan[n].call.id].keywords}

\* The call numbered nreqs has its placeholders written and has begun: it is
\* answered or suspended inside the injected function, and what it read from
\* the written partials is its own request.
CallStarted ==
    \E r \in RunsSeen :
        /\ r.rid = nreqs
        /\ r.req.n = nreqs
        /\ PlaceholdersWritten(r)
        /\ \A i \in BoundReads(r) : r.log[i].obs = r.req

\* C20: in every call, through the sync and the async wrapper, the request,
\* settings, app and state are written into the placeholders of the deferred
\* bindings and of the handler's partial in the very step in which the
\* injected function starts, with the writes visible to it, and placeholders
\* are written in no other step of a request.
C20_WritesBeforeInjectedCall ==
    [][/\ nreqs' = nreqs + 1 => CallStarted'
       /\ (partials' # partials /\ nregs' = nregs) => nreqs' = nreqs + 1]_vars

\* An async call suspended inside the injected function after a provider bound
\* by a written partial has read the request.
C20_Witness ==
    \E k \in 1..Len(inflight) :
        /\ inflight[k].rid = nreqs
        /\ BoundReads(inflight[k]) # {}
        /\ PlaceholdersWritten(inflight[k])

\* A provider qualifies for a deferred binding when its own signature has a
\* non-annotated request, settings, app or state parameter.
Qualifying(fn) == DefaultNames(FnTable[fn].params) # {}

\* The provider nodes of the call model of wrapper v.
ProviderNodes(v) == 1..(Len(views[v].plan) - 1)

\* The partials the markers on a list of bindings hold.
BoundPartials(bindings) ==
    {markers[bindings[i]].dep : i \in 1..Len(bindings)}

\* C21: every decoration pass creates its own deferred bindings for every
\* qualifying provider of the route's dependency tree: each wrapper, also one
\* installed after another pass over the same Depends markers or under
\* another verb, has among the bindings of its own pass, and on the list its
\* calls rewrite, the partial through which it calls each such provider.
C21_EveryPassCreatesItsBindings ==
    \A v \in 1..Len(views) : \A n \in ProviderNodes(v) :
        Qualifying(views[v].plan[n].fn) =>
            /\ views[v].plan[n].call \in BoundPartials(views[v].bindings)
            /\ views[v].plan[n].call \in BoundPartials(BindingsOf(v))

\* The provider callable behind binding i of a list of bindings.
BoundProvider(bindings, i) == Underlying(markers[bindings[i]].dep, Heap)

\* C22: the bindings one decoration pass creates for a route hold at most one
\* record per provider callable, however many Depends markers of the route's
\* graph reference that provider.
C22_OneBindingPerProvider ==
    \A v \in 1..Len(views) :
        \A i \in 1..Len(views[v].bindings), j \in 1..Len(views[v].bindings) :
            BoundProvider(views[v].bindings, i) = BoundProvider(views[v].bindings, j)
                => i = j

\* The markers whose provider has been replaced by a deferred partial.
PartialisedMarkers == {m \in DOMAIN markers : markers[m].dep.k = "partial"}

\* How often marker m stands on the lists of the method factories.
RegistryCount(m) ==
    Cardinality({<<verb, i>> \in Verbs \X (1..Len(markers)) :
                    i <= Len(registry[verb]) /\ registry[verb][i] = m})

\* C23: a Depends marker whose provider has been replaced by a deferred partial
\* is not processed again by any later decoration pass: it keeps that partial,
\* the partial wraps the original callable directly and keeps its rewritten
\* signature and keyword names, and the marker stands at most once on the
\* binding lists.
C23_PartialisedMarkerNotReprocessed ==
    [][\A m \in PartialisedMarkers :
          /\ partials[markers[m].dep.id].func.k # "partial"
          /\ markers'[m].dep = markers[m].dep
          /\ partials'[markers[m].dep.id].func = partials[markers[m].dep.id].func
          /\ partials'[markers[m].dep.id].sig = partials[markers[m].dep.id].sig
          /\ DOMAIN partials'[markers[m].dep.id].keywords
                 = DOMAIN partials[markers[m].dep.id].keywords
          /\ RegistryCount(m)' <= 1]_vars

\* A second pass has walked over a marker the first pass partialised: the
\* second wrapper calls the provider through the first pass's partial.
C23_Witness ==
    /\ Len(views) = 2
    /\ \E i \in 1..Len(views[1].bindings), n \in ProviderNodes(2) :
           /\ views[1].bindings[i] \in PartialisedMarkers
           /\ views[2].plan[n].call = markers[views[1].bindings[i]].dep

\* Whether the signature of provider fn contains a non-annotated parameter
\* that classifies as request, settings, app or state.
NeedsInjection(fn) ==
    \E i \in 1..Len(FnTable[fn].params) :
        ~is_annotated(FnTable[fn].params[i]) /\ is_auto_depends(FnTable[fn].params[i])

\* C24: after the first walk of a handler the recorded bindings are exactly
\* the Depends markers reachable from it, at any depth, whose provider has a
\* non-annotated request, settings, app or state parameter; every other
\* provider on the way is left unwrapped, with no signature set on it.
C24_BindingsAreTheRequestReaders ==
    (nregs = 1 /\ Len(views) = 1) =>
        \A n \in ProviderNodes(1) :
            IF NeedsInjection(views[1].plan[n].fn)
            THEN views[1].plan[n].call \in BoundPartials(views[1].bindings)
            ELSE /\ views[1].plan[n].call = FnRef(views[1].plan[n].fn)
                 /\ ~funcSig[views[1].plan[n].fn].set

\* Every call seen so far with the positional arguments the wrapper forwarded.
Forwarded ==
    {[view |-> finished[i].view, req |-> finished[i].req,
      posargs |-> finished[i].posargs] : i \in 1..Len(finished)}
    \cup {[view |-> inflight[i].view, req |-> inflight[i].req,
            posargs |-> inflight[i].posargs] : i \in 1..Len(inflight)}

\* C25: the wrapper takes the request from position 0 of the router's
\* positional arguments and forwards them without it exactly when the handler
\* did not itself declare a request parameter; a handler without parameters
\* is called with no positional argument and its value is returned, under
\* every verb.
C25_RequestForwardedWhenDeclared ==
    /\ \A a \in Forwarded :
           a.posargs = (IF TakesRequest(views[a.view].handler) THEN <<a.req>> ELSE <<>>)
    /\ \A a \in Answers :
           HandlerOf(a) = "ah_plain" => a.status = 200 /\ a.body = StrVal("ah_plain")

\* The signature inspect.signature reports for the handler of wrapper v now.
VisibleSignature(v) == SignatureFromCallable(views[v].api_func, Heap)

\* Names and annotation classes of a signature, in order.
Shape(sig) == [i \in 1..Len(sig) |-> [name |-> sig[i].name, ann |-> sig[i].ann]]

\* The parameters of handler h left for the router: not annotated and not
\* auto-injected.
IsRouterParameter(p) == ~is_annotated(p) /\ ~is_auto_depends(p)
RouterParameters(h) == SelectSeq(FnTable[h].params, IsRouterParameter)

\* The full signature of handler h as the pipeline keeps it: annotated
\* parameters included, auto-injected ones stripped.
IsKeptParameter(p) == is_annotated(p) \/ ~is_auto_depends(p)
FullShape(h) == Shape(SelectSeq(FnTable[h].params, IsKeptParameter))

\* Every wrapper was handed over with the router parameters alone, and the
\* handler's signature is now the full one.
SignaturesInPlace ==
    \A v \in 1..Len(views) :
        /\ Shape(views[v].public_sig) = Shape(RouterParameters(views[v].handler))
        /\ Shape(VisibleSignature(v)) = FullShape(views[v].handler)

\* The handler of the newest wrapper has the deep-copied original signature.
OriginalRestored ==
    VisibleSignature(Len(views)) = views[Len(views)].original_signature

\* The handler of the call numbered nreqs has the walked signature.
WalkedSignatureSet ==
    \E r \in RunsSeen :
        r.rid = nreqs /\ VisibleSignature(r.view) = views[r.view].api_func_signature

\* C26: the signature the router sees when the wrapper is handed to it has no
\* annotated parameter and has every remaining non-annotated parameter in the
\* original order; once the registration has returned, and after every call,
\* the handler's signature is the full one with the annotated parameters: the
\* deep-copied original after a registration, the walked one after a call.
C26_VisibleSignatureSwapped ==
    [][/\ SignaturesInPlace'
       /\ Len(views') > Len(views) => OriginalRestored'
       /\ nreqs' = nreqs + 1 => WalkedSignatureSet']_vars

\* A route with a path parameter and a Depends parameter has been registered
\* and called: the router saw item_id alone, the handler received both values,
\* and the walked signature is in place.
C26_Witness ==
    \E a \in Answers :
        /\ HandlerOf(a) = "h_path" /\ a.status = 200
        /\ Shape(views[a.view].public_sig) = <<[name |-> "item_id", ann |-> "Plain"]>>
        /\ Len(TheHandlerEvent(a).args) = 2
        /\ VisibleSignature(a.view) = views[a.view].api_func_signature

\* The function first handed to the decorator, through any chain of wrappers
\* decorated again.
RECURSIVE OriginalHandler(_)
OriginalHandler(v) ==
    IF views[v].input.k = "fn" THEN views[v].input.f
    ELSE OriginalHandler(views[v].input.id)

\* C27: the wrapper installed in the router is a coroutine function exactly
\* when the original handler is one, also when auto-dependency stripping has
\* replaced the handler by a partial application before the choice.
C27_WrapperMatchesHandlerKind ==
    \A v \in 1..Len(views) :
        views[v].isAsync <=> FnTable[OriginalHandler(v)].isAsync

\* An async handler that declares the request was replaced by a partial and
\* got the async wrapper.
C27_Witness ==
    \E v \in 1..Len(views) :
        /\ views[v].api_func.k = "partial"
        /\ FnTable[OriginalHandler(v)].isAsync
        /\ views[v].isAsync

\* The texts of the ValidationError a Header marker raises.
MissingHeaderTexts ==
    {"Missing header: " \o n :
        n \in {"None", "val", "x_api_key", "x_client_id", "header_value",
               "X-Required", "X-Optional"}}

\* The exception a logged provider call ended with, "" when it returned: a
\* setup that raises, a provider that reads the method of a request that is
\* None, a Header marker that finds no header or has no declared type.
RaisedBy(ev) ==
    CASE ev.e = "setup" /\ FnTable[ev.fn].setup = "raise" -> "ValueError"
      [] ev.e = "setup" /\ FnTable[ev.fn].setup = "raise_http" -> "HttpError403"
      [] ev.e = "call" /\ FnTable[ev.fn].body = "method" /\ ev.obs.t # "req" -> "AttributeError"
      [] ev.e = "call" /\ FnTable[ev.fn].body = "header" /\ ev.val.s \in MissingHeaderTexts ->
             "ValidationError"
      [] ev.e = "call" /\ FnTable[ev.fn].body = "header" /\ ev.val = None -> "AttributeError"
      [] OTHER -> ""

RaisingCalls(a) == {i \in 1..Len(a.log) : RaisedBy(a.log[i]) # ""}

\* C28: an exception raised by a provider during resolution reaches the
\* router unchanged: the answer carries that exception and no value, its
\* status is the router's for that exception, the handler body was not
\* invoked, and no provider was called again after the one that raised.
C28_ProviderExceptionPropagates ==
    \A a \in Answers : \A i \in RaisingCalls(a) :
        /\ a.exc = RaisedBy(a.log[i])
        /\ a.body = None
        /\ a.status = (CASE a.exc = "HttpError403" -> 403
                         [] a.exc = "ValidationError" -> 422
                         [] OTHER -> 500)
        /\ HandlerEvents(a) = {}
        /\ \A j \in (i + 1)..Len(a.log) : a.log[j].e = "teardown"

\* A provider raised an HTTP error after another provider had been set up:
\* the answer is the 403 and the handler did not run.
C28_Witness ==
    \E a \in Answers :
        /\ HandlerOf(a) = "h_dep_http"
        /\ RaisingCalls(a) # {}
        /\ a.exc = "HttpError403"
        /\ HandlerEvents(a) = {}


\* Graph walk, stepwise.  The Depends references of a function as written, and
\* those reachable from a set of references: the least set closed under "the
\* provider of a member references".
ReferencesOf(fn) ==
    {FnTable[fn].params[i].marker :
        i \in {j \in 1..Len(FnTable[fn].params) : is_annotated(FnTable[fn].params[j])}}

RECURSIVE Reachable(_)
Reachable(R) ==
    LET N == R \cup UNION {ReferencesOf(StaticMarkers[m].dep.f) : m \in R}
    IN IF N = R THEN R ELSE Reachable(N)

WalkedHandler == CHOOSE h \in app : TRUE
Visited == {walk.visited[i] : i \in 1..Len(walk.visited)}
VisitedEveryReference == Visited = Reachable(ReferencesOf(WalkedHandler))

\* The stepwise walk ends with the heaps and the bindings the recursive walk
\* computes for the same handler.
WalkRefinesWalkHandler ==
    walk.pc = "done" =>
        LET st == StripDefaults(FnRef(WalkedHandler), FnTable[WalkedHandler].params,
                                [markers |-> StaticMarkers, partials |-> <<>>,
                                 funcSig |-> funcSig])
            W == WalkHandler(st.sig, deepcopy(st.sig, st.H).H)
        IN /\ markers = W.markers
           /\ partials = W.partials
           /\ walk.coll = W.coll

\* C29: for every handler of the application (chains up to MaxDepth levels,
\* two branches over one shared provider, providers that take the request),
\* the graph walk comes to its end, and when it does it has entered
\* update_deep_dependencies for every Depends reference reachable from the
\* handler.
C29_WalkTerminatesHavingVisitedAll ==
    <>(walk.pc = "done" /\ VisitedEveryReference)

\* The walk of the two-branch route is over: each branch and each branch's own
\* reference to the shared provider were visited.
C29_Witness ==
    /\ walk.pc = "done"
    /\ WalkedHandler = "branched_route"
    /\ walk.visited = <<58, 56, 59, 57>>
    /\ Underlying(markers[56].dep, Heap) = Underlying(markers[57].dep, Heap)

\* Derived signature.  The tag of a parameter: annotated first; otherwise
\* request, settings, app or state by the declared type or by the reserved
\* name, as has_default_dependencies decides that a signature has such a
\* parameter; otherwise plain.
Classify(p) ==
    IF is_annotated(p) THEN "annotated"
    ELSE IF is_request(p) \/ p.name = "request" THEN "request"
    ELSE IF is_settings(p) \/ p.name = "settings" THEN "settings"
    ELSE IF is_app(p) \/ p.name = "app" THEN "app"
    ELSE IF is_state(p) \/ p.name = "state" THEN "state"
    ELSE "plain"

AnnotatedOrPlain(p) == Classify(p) \in {"annotated", "plain"}

\* C30: the signature derived without the auto-injected defaults is the source
\* signature's annotated and plain parameters, in their original order: every
\* one of them is in it and no non-annotated parameter classified as request,
\* settings, app or state is.
C30_DerivedKeepsAnnotatedAndPlainOnly ==
    derived.op = "new_signature_without_default_dependencies" /\ derived.result # Pending =>
        /\ derived.result.exc = ""
        /\ derived.result.val = SelectSeq(derived.source, AnnotatedOrPlain)

\* The source positions of the parameters that are not annotated.
NotAnnotatedAt(sig) == {i \in 1..Len(sig) : ~is_annotated(sig[i])}

\* C31: the signature derived without annotated parameters is made of the
\* source's non-annotated parameters, each once, in their source order (there
\* is an order-preserving map of its positions onto their source positions),
\* whatever their name or type, and holds no annotated parameter.
C31_WithoutAnnotatedKeepsTheRest ==
    derived.op = "new_signature_without_annotated" /\ derived.result # Pending =>
        /\ derived.result.exc = ""
        /\ \A i \in 1..Len(derived.result.val) : ~is_annotated(derived.result.val[i])
        /\ \E at \in [1..Len(derived.result.val) -> 1..Len(derived.source)] :
              /\ \A i, j \in DOMAIN at : i < j => at[i] < at[j]
              /\ {at[i] : i \in DOMAIN at} = NotAnnotatedAt(derived.source)
              /\ \A i \in DOMAIN at : derived.result.val[i] = derived.source[at[i]]

\* An annotated parameter followed by a parameter whose annotation is not a
\* class: the second alone is kept.
C31_Witness ==
    /\ derived.op = "new_signature_without_annotated"
    /\ derived.result # Pending
    /\ Len(derived.source) = 2
    /\ is_annotated(derived.source[1])
    /\ derived.source[2].ann = "Generic"
    /\ derived.result.val = <<derived.source[2]>>

\* Derivations and their sources.  The names of the annotated parameters of a
\* signature, in order.
AnnotatedNames(sig) ==
    LET kept == SelectSeq(sig, is_annotated)
    IN [i \in 1..Len(kept) |-> kept[i].name]

\* Every wrapper holds the signature the public one was derived from with its
\* annotated parameters still in it, and a saved copy of the same shape.
SourcesIntact ==
    \A v \in 1..Len(views) :
        /\ AnnotatedNames(views[v].api_func_signature)
               = AnnotatedNames(FnTable[views[v].handler].params)
        /\ views[v].public_sig = SelectSeq(views[v].api_func_signature, KeepNotAnnotated)
        /\ Shape(views[v].original_signature) = Shape(views[v].api_func_signature)

\* C32: deriving the public signature (and, before it, the signature without
\* auto-injected parameters) leaves the signature it is derived from as it
\* was, and no later pass or request changes the parameter sequence of a
\* signature a wrapper holds or of its saved copy.
C32_DerivationLeavesSourceAlone ==
    [][/\ SourcesIntact'
       /\ \A v \in 1..Len(views) :
             /\ views'[v].api_func_signature = views[v].api_func_signature
             /\ views'[v].original_signature = views[v].original_signature]_vars

\* A wrapper whose public signature is shorter than the signature it was
\* derived from, decorated again by a later pass.
C32_Witness ==
    /\ Len(views) = 2
    /\ views[2].input.k = "view"
    /\ Len(views[1].public_sig) < Len(views[1].api_func_signature)
    /\ Len(views[2].public_sig) < Len(views[2].api_func_signature)

\* Stripping.  The wrapper's stripping step has run on the signature without
\* raising.
StripDone ==
    derived.op = "wrapper" /\ derived.result # Pending /\ derived.result.exc = ""

ReservedNames == {"request", "settings", "app", "state"}
AnnotatedReserved(sig) ==
    {i \in 1..Len(sig) : is_annotated(sig[i]) /\ sig[i].name \in ReservedNames}

\* C33: an annotated parameter that bears a reserved name stays in the
\* signature the stripping leaves and no keyword of its name is pre-seeded;
\* when no other parameter is request-like or auto-injected by type or name,
\* the handler is not wrapped in a partial at all and the signature is not
\* taken to have a request parameter.
C33_AnnotatedWinsOverReservedName ==
    StripDone =>
        /\ \A i \in AnnotatedReserved(derived.source) :
              /\ \E j \in 1..Len(derived.result.val.api_func_signature) :
                    derived.result.val.api_func_signature[j] = derived.source[i]
              /\ derived.source[i].name \notin DOMAIN derived.result.val.keywords
        /\ (\A i \in 1..Len(derived.source) :
                Classify(derived.source[i]) \in {"annotated", "plain"})
           => /\ derived.result.val.api_func = FnRef("route")
              /\ derived.result.val.api_func_signature = derived.source
              /\ ~derived.result.val.has_request_object

\* A handler with a request parameter proper and an annotated parameter named
\* settings: the first is pre-seeded and stripped, the second is kept.
C33_Witness ==
    /\ StripDone
    /\ derived.source = <<Plain("request", "Request"), Dep("settings", 1)>>
    /\ DOMAIN derived.result.val.keywords = {"request"}
    /\ derived.result.val.api_func_signature = <<Dep("settings", 1)>>

\* C39: on every signature the stripping step's three decisions agree: the
\* handler is wrapped in a partial (the signature reports default
\* dependencies) exactly when some keyword is pre-seeded, and a non-annotated
\* parameter is missing from the signature left exactly when a keyword of its
\* name is pre-seeded.
C39_AutoInjectionDecisionsAgree ==
    StripDone =>
        /\ derived.result.val.api_func.k = "partial"
               <=> DOMAIN derived.result.val.keywords # {}
        /\ \A i \in NotAnnotatedAt(derived.source) :
              (\A j \in 1..Len(derived.result.val.api_func_signature) :
                   derived.result.val.api_func_signature[j] # derived.source[i])
              <=> derived.source[i].name \in DOMAIN derived.result.val.keywords

\* Custom-field markers.  The value the marker is to extract is not in the
\* request: no such query parameter, no such header, no body or (for an
\* embedded body item) no such key.
FieldName ==
    IF query_call.self.param_name # "" THEN query_call.self.param_name
    ELSE IF "headers" \in DOMAIN query_call THEN query_call.self._signature_param_name
    ELSE query_call.self.signature_param_name

SourceAbsent ==
    CASE "query_params" \in DOMAIN query_call -> FieldName \notin DOMAIN query_call.query_params
      [] "headers" \in DOMAIN query_call -> ~InHeaders(FieldName, query_call.headers)
      [] OTHER ->
             \/ query_call.body = EmptyBody
             \/ /\ query_call.self.embed
                /\ query_call.body.raw = "object"
                /\ FieldName \notin DOMAIN query_call.body.items

\* The default the marker has, None when it has none.
FieldDefault ==
    CASE "query_params" \in DOMAIN query_call ->
             IF query_call.self._default # empty THEN query_call.self._default
             ELSE IF query_call.self.default # SignatureEmpty THEN query_call.self.default
             ELSE None
      [] "headers" \in DOMAIN query_call -> None
      [] OTHER -> query_call.self.default

\* C34: a marker built with required=False, called on a request that lacks
\* its source value, returns its default, or None when it has none; it does
\* not raise.
C34_OptionalFieldAbsentGivesDefault ==
    (/\ query_call.result # Pending
     /\ ~query_call.self.required
     /\ SourceAbsent)
    => /\ query_call.result.exc = ""
       /\ query_call.result.val = FieldDefault

\* Explicit context passing.  What a parameter of an auto-injected type would
\* be given were the context of request req handed down the call graph.
ContextValue(p, req) ==
    CASE is_request(p) -> req
      [] is_app(p) -> AppVal
      [] is_settings(p) -> SettingsVal
      [] is_state(p) -> StateVal

\* Every call made for answer a bound all its parameters, and gave each
\* non-annotated parameter of an auto-injected type the value of a's context.
Threaded(a) ==
    /\ a.exc # "TypeError"
    /\ \A i \in 1..Len(a.log) :
          a.log[i].e \in {"call", "setup", "handler"} =>
              \A j \in 1..Len(FnTable[a.log[i].fn].params) :
                  (/\ ~is_annotated(FnTable[a.log[i].fn].params[j])
                   /\ is_auto_depends(FnTable[a.log[i].fn].params[j]))
                  => a.log[i].args[j] = ContextValue(FnTable[a.log[i].fn].params[j], a.req)

LastAnswerThreaded == finished # <<>> => Threaded(finished[Len(finished)])

\* C35: a request served from start to end with no other request in flight
\* gives every provider and the handler the request, application, settings
\* and state of that request, after every sequence of decoration passes and
\* earlier requests.
C35_SequentialEqualsExplicitContext ==
    [][(/\ inflight = <<>>
        /\ inflight' = <<>>
        /\ Len(finished') > Len(finished))
       => LastAnswerThreaded']_vars
\* The view of the request started last.
NewestView ==
    CHOOSE v \in 1..Len(views) :
        \/ \E i \in 1..Len(finished) : finished[i].rid = nreqs /\ finished[i].view = v
        \/ \E i \in 1..Len(inflight) : inflight[i].rid = nreqs /\ inflight[i].view = v

\* The references in the dependency tree of handler h: those its functions
\* are written with and those recorded by a decoration pass over h.
TreeOf(h) ==
    Reachable(ReferencesOf(h))
    \cup UNION {{views[w].bindings[i] : i \in 1..Len(views[w].bindings)} :
                   w \in {u \in 1..Len(views) : views[u].handler = h}}

PartialsBoundBy(M) ==
    {markers[m].dep.id : m \in {n \in M : markers[n].dep.k = "partial"}}

ForeignBindings ==
    PartialsBoundBy(UNION {TreeOf(h) : h \in app \ {views[NewestView].handler}})
    \ PartialsBoundBy(TreeOf(views[NewestView].handler))

\* C36: a request on a route leaves the keywords of every binding that is
\* reachable only from other routes as they were before the call.
C36_RequestWritesOwnTreeOnly ==
    [][nreqs' = nreqs + 1 =>
          \A p \in ForeignBindings' : partials'[p].keywords = partials[p].keywords]_vars

\* The events start() has to publish for request r: one per task of the
\* marker, in the order of the constructor's arguments, with the arguments
\* of r's own call.
EventsDue(r) ==
    [i \in 1..Len(background.markers[r.marker]._tasks) |->
        BackgroundTaskEvent(background.markers[r.marker]._tasks[i].name, r.args, r.kwargs)]

\* C37: when start() has returned for a request, the events it published are
\* one per task of the marker, in declaration order, each with the arguments
\* that request passed to the marker.
C37_EventsCarryOwnArguments ==
    \A r \in 1..Len(background.requests) :
        background.requests[r].pc = "done" =>
            background.requests[r].published = EventsDue(background.requests[r])

\* C38: a constructor call that raises ValueError leaves the registry as it
\* was, and no call ever removes a name or stores another task under it.
C38_DuplicateLeavesRegistryAlone ==
    [][/\ \A n \in DOMAIN background._TASK_REGISTRY :
              /\ n \in DOMAIN background'._TASK_REGISTRY
              /\ background'._TASK_REGISTRY[n] = background._TASK_REGISTRY[n]
       /\ (/\ background'.constructed = background.constructed + 1
           /\ background'.raised = "ValueError")
          => background'._TASK_REGISTRY = background._TASK_REGISTRY]_vars

====
